---- MODULE Spec2Model ----
(***************************************************************************)
(* Story classifier of griftfinder (lib/story-classifier): one snapshot of *)
(* investigative records goes through eight pattern detectors, a fallback  *)
(* and a final sort.  Each detector is an operator computed the way the    *)
(* code computes it; classifyStories is the state machine that applies     *)
(* them in the code's order to the shared `stories` list.                  *)
(*                                                                         *)
(* Conventions.  A missing / null / empty string field is "".  A nullable  *)
(* number is <<>> (null) or <<n>>.  Money is in whole dollars, bridge      *)
(* scores in hundredths.  Of ClassifiedStory the model keeps id, pattern,  *)
(* severity, headline (the strings it interpolates), entities (id, name), *)
(* totalMoney, networkSize and sourceCount, the date of a vendor story and  *)
(* the maxBridge a cluster story reports.                                  *)
(***************************************************************************)
EXTENDS Integers, Sequences, FiniteSets, TLC

VARIABLES data, stories, pc, run, prev, pending, engine, trav

vars == <<data, stories, pc, run, prev, pending, engine, trav>>

(***************************************************************************)
(* Strings: toUpperCase, trim, slice, includes.                            *)
(***************************************************************************)
UpperTable ==
  ("a" :> "A") @@ ("b" :> "B") @@ ("c" :> "C") @@ ("d" :> "D") @@ ("e" :> "E") @@
  ("f" :> "F") @@ ("g" :> "G") @@ ("h" :> "H") @@ ("i" :> "I") @@ ("j" :> "J") @@
  ("k" :> "K") @@ ("l" :> "L") @@ ("m" :> "M") @@ ("n" :> "N") @@ ("o" :> "O") @@
  ("p" :> "P") @@ ("q" :> "Q") @@ ("r" :> "R") @@ ("s" :> "S") @@ ("t" :> "T") @@
  ("u" :> "U") @@ ("v" :> "V") @@ ("w" :> "W") @@ ("x" :> "X") @@ ("y" :> "Y") @@
  ("z" :> "Z")

UpperChar(c) == IF c \in DOMAIN UpperTable THEN UpperTable[c] ELSE c

RECURSIVE ToUpperCase(_)
ToUpperCase(s) ==
  IF Len(s) = 0 THEN ""
  ELSE UpperChar(SubSeq(s, 1, 1)) \o ToUpperCase(SubSeq(s, 2, Len(s)))

RECURSIVE TrimStart(_)
TrimStart(s) ==
  IF Len(s) > 0 /\ SubSeq(s, 1, 1) = " " THEN TrimStart(SubSeq(s, 2, Len(s))) ELSE s

RECURSIVE TrimEnd(_)
TrimEnd(s) ==
  IF Len(s) > 0 /\ SubSeq(s, Len(s), Len(s)) = " "
  THEN TrimEnd(SubSeq(s, 1, Len(s) - 1)) ELSE s

Trim(s) == TrimEnd(TrimStart(s))

\* s.slice(0, n)
Slice(s, n) == IF Len(s) <= n THEN s ELSE SubSeq(s, 1, n)

\* s.includes(t)
Includes(s, t) ==
  \E i \in 1..(Len(s) - Len(t) + 1) : SubSeq(s, i, i + Len(t) - 1) = t

(***************************************************************************)
(* Numbers and small list utilities.                                       *)
(***************************************************************************)
\* x || 0 on a nullable number
NumOr0(a) == IF a = <<>> THEN 0 ELSE a[1]

\* a || b on strings
StrOr(a, b) == IF a # "" THEN a ELSE b

RECURSIVE SumSeq(_)
SumSeq(s) == IF s = <<>> THEN 0 ELSE s[1] + SumSeq(Tail(s))

Contains(s, x) == \E i \in 1..Len(s) : s[i] = x

\* [...new Set(s)] and Map key order: first occurrences, in order
RECURSIVE Distinct(_)
Distinct(s) ==
  IF s = <<>> THEN <<>>
  ELSE LET init == Distinct(SubSeq(s, 1, Len(s) - 1))
           x == s[Len(s)]
       IN IF Contains(init, x) THEN init ELSE Append(init, x)

RECURSIVE SelectIdx(_, _)
\* the indices of s, ascending, kept in the set keep
SelectIdx(n, keep) ==
  IF n = 0 THEN <<>>
  ELSE IF n \in keep THEN Append(SelectIdx(n - 1, keep), n) ELSE SelectIdx(n - 1, keep)

Filter(s, keep) == LET ix == SelectIdx(Len(s), keep) IN [k \in 1..Len(ix) |-> s[ix[k]]]

RECURSIVE Flatten(_)
Flatten(ss) == IF ss = <<>> THEN <<>> ELSE ss[1] \o Flatten(Tail(ss))

\* index of the entry with key k in an insertion-ordered Map, 0 when absent
KeyIndex(m, k) ==
  IF \E i \in 1..Len(m) : m[i].key = k
  THEN CHOOSE i \in 1..Len(m) : m[i].key = k
  ELSE 0

(***************************************************************************)
(* classifyStories: entityMap and entityName.                              *)
(***************************************************************************)
\* entityMap.get(id ?? '')?.canonical_name ?? (id != null ? String(id).slice(0, 12) : 'Unknown')
\* (new Map(pairs) keeps the last entity of an id)
entityName(ents, id) ==
  LET hits == {i \in 1..Len(ents) : ents[i].id = id}
  IN IF hits # {}
     THEN ents[CHOOSE i \in hits : \A j \in hits : j <= i].canonical_name
     ELSE IF id # "" THEN Slice(id, 12) ELSE "Unknown"

(***************************************************************************)
(* 1. detectVendorSiphoning                                                *)
(***************************************************************************)
genericVendorNames ==
  {"AGENCY", "UNKNOWN", "N/A", "NONE", "UNKNOWN RECIPIENT", "MISC", "OTHER", ""}

minTotal == 20000

minPayers == 3

entityMinTotal == 50000

criticalPayers == 5

highTotal == 200000

idPrefixLen == 20

\* the normalisation with .trim() forgotten
NormalizeVendorUntrimmed(name) == ToUpperCase(name)

\* (d.recipient_name || '').toUpperCase().trim()
NormalizeVendor(name) == Trim(ToUpperCase(name))

\* the skip with the stoplist lookup left out
SkippedVendorNoStoplist(vendor) == vendor = "" \/ Len(vendor) < 3

\* the vendors the aggregation loop skips
SkippedVendor(vendor) ==
  vendor = "" \/ Len(vendor) < 3 \/ vendor \in genericVendorNames

\* (d.committee_id || d.committee_name || '').trim() || 'unknown'
CommitteeKey(d) == StrOr(Trim(StrOr(d.committee_id, d.committee_name)), "unknown")

\* the guard `d.entity_id &&` of the payer-entity map
HasEntityIdAlways(d) == TRUE

HasEntityId(d) == d.entity_id # ""

\* one iteration of the aggregation loop over data.disbursements
VendorAccumulate(vm, d, ents) ==
  LET vendor == NormalizeVendor(d.recipient_name)
  IN IF SkippedVendor(vendor) THEN vm
     ELSE
       LET vm1 == IF KeyIndex(vm, vendor) = 0
                  THEN Append(vm, [key |-> vendor, total |-> 0, entities |-> <<>>,
                                   committees |-> <<>>, disbursements |-> <<>>])
                  ELSE vm
           i == KeyIndex(vm1, vendor)
           v == vm1[i]
           amt == NumOr0(d.disbursement_amount)
           committeeKey == CommitteeKey(d)
           coms1 == IF KeyIndex(v.committees, committeeKey) = 0
                    THEN Append(v.committees,
                                [key |-> committeeKey,
                                 name |-> StrOr(d.committee_name, committeeKey),
                                 amount |-> 0])
                    ELSE v.committees
           coms2 == [coms1 EXCEPT ![KeyIndex(coms1, committeeKey)].amount = @ + amt]
           ents1 == IF HasEntityId(d) /\ KeyIndex(v.entities, d.entity_id) = 0
                    THEN Append(v.entities,
                                [key |-> d.entity_id,
                                 name |-> entityName(ents, d.entity_id),
                                 amount |-> 0,
                                 committee |-> d.committee_name])
                    ELSE v.entities
           ents2 == IF HasEntityId(d)
                    THEN [ents1 EXCEPT ![KeyIndex(ents1, d.entity_id)].amount = @ + amt]
                    ELSE ents1
       IN [vm1 EXCEPT ![i] = [key |-> vendor, total |-> v.total + amt,
                              entities |-> ents2, committees |-> coms2,
                              disbursements |-> Append(v.disbursements, d)]]

RECURSIVE VendorFold(_, _, _)
VendorFold(ds, ents, n) ==
  IF n = 0 THEN <<>> ELSE VendorAccumulate(VendorFold(ds, ents, n - 1), ds[n], ents)

\* vendorMap after the loop
vendorMap(d) == VendorFold(d.disbursements, d.entities, Len(d.disbursements))

\* Array.prototype.sort((a, b) => b[1].amount - a[1].amount): stable
RECURSIVE InsertByAmount(_, _)
InsertByAmount(sorted, x) ==
  IF sorted = <<>> THEN <<x>>
  ELSE LET y == sorted[Len(sorted)]
       IN IF x.amount - y.amount > 0
          THEN Append(InsertByAmount(SubSeq(sorted, 1, Len(sorted) - 1), x), y)
          ELSE Append(sorted, x)

RECURSIVE SortByAmountDesc(_)
SortByAmountDesc(s) ==
  IF s = <<>> THEN <<>>
  ELSE InsertByAmount(SortByAmountDesc(SubSeq(s, 1, Len(s) - 1)), s[Len(s)])

\* the characters of an ISO date, in collation order
DateChars == "-0123456789"

CharRank(c) == CHOOSE i \in 1..Len(DateChars) : SubSeq(DateChars, i, i) = c

RECURSIVE LocaleCompare(_, _)
\* a.localeCompare(b) for date strings: negative, zero or positive
LocaleCompare(a, b) ==
  IF a = "" /\ b = "" THEN 0
  ELSE IF a = "" THEN -1
  ELSE IF b = "" THEN 1
  ELSE LET x == CharRank(SubSeq(a, 1, 1))
           y == CharRank(SubSeq(b, 1, 1))
       IN IF x < y THEN -1
          ELSE IF x > y THEN 1
          ELSE LocaleCompare(SubSeq(a, 2, Len(a)), SubSeq(b, 2, Len(b)))

\* (a, b) => b.disbursement_date?.localeCompare(a.disbursement_date || '') || 0
DateCompare(a, b) ==
  IF b.disbursement_date = "" THEN 0
  ELSE LocaleCompare(b.disbursement_date, a.disbursement_date)

\* Array.prototype.sort leaves the order to the engine when the comparator is not a
\* consistent order (here: when some dates are missing); the two engines are V8's
\* TimSort and a bottom-up stable merge sort
Engines == {"timsort", "mergesort"}

Reverse(s) == [i \in 1..Len(s) |-> s[Len(s) + 1 - i]]

RECURSIVE RunEnd(_, _, _)
\* TimSort: the run that starts at s[1] ends where the direction of s[1], s[2] breaks
RunEnd(s, descending, idx) ==
  IF idx > Len(s) THEN Len(s)
  ELSE LET order == DateCompare(s[idx], s[idx - 1])
       IN IF (descending /\ order >= 0) \/ (~descending /\ order < 0) THEN idx - 1
          ELSE RunEnd(s, descending, idx + 1)

\* TimSort: the first run, reversed when it is strictly descending
CountAndMakeRun(s) ==
  LET descending == DateCompare(s[2], s[1]) < 0
      runLength == RunEnd(s, descending, 3)
  IN [work |-> IF descending
               THEN Reverse(SubSeq(s, 1, runLength)) \o SubSeq(s, runLength + 1, Len(s))
               ELSE s,
      runLength |-> runLength]

RECURSIVE BinarySearch(_, _, _, _)
\* TimSort: where pivot goes among s[left .. right - 1]
BinarySearch(s, pivot, left, right) ==
  IF left >= right THEN left
  ELSE LET mid == left + ((right - left) \div 2)
       IN IF DateCompare(pivot, s[mid]) < 0
          THEN BinarySearch(s, pivot, left, mid)
          ELSE BinarySearch(s, pivot, mid + 1, right)

RECURSIVE BinaryInsertionSort(_, _)
\* TimSort: s[start], s[start + 1], ... inserted into the sorted prefix
BinaryInsertionSort(s, start) ==
  IF start > Len(s) THEN s
  ELSE LET pivot == s[start]
           pos == BinarySearch(s, pivot, 1, start)
       IN BinaryInsertionSort(SubSeq(s, 1, pos - 1) \o <<pivot>> \o SubSeq(s, pos, start - 1)
                                \o SubSeq(s, start + 1, Len(s)),
                              start + 1)

\* V8's sort of an array shorter than its minimum run length: one run, then insertions
TimSortByDate(s) ==
  IF Len(s) < 2 THEN s
  ELSE LET r == CountAndMakeRun(s)
       IN BinaryInsertionSort(r.work, r.runLength + 1)

RECURSIVE Merge(_, _)
\* merge sort: the right element goes first only when it compares below the left one
Merge(left, right) ==
  IF right = <<>> THEN left
  ELSE IF left = <<>> THEN right
  ELSE IF DateCompare(right[1], left[1]) < 0
       THEN <<right[1]>> \o Merge(left, Tail(right))
       ELSE <<left[1]>> \o Merge(Tail(left), right)

RECURSIVE MergePass(_, _)
\* merge sort: adjacent runs of the given width merged pairwise
MergePass(s, width) ==
  IF Len(s) <= width THEN s
  ELSE LET stop == IF 2 * width < Len(s) THEN 2 * width ELSE Len(s)
       IN Merge(SubSeq(s, 1, width), SubSeq(s, width + 1, stop))
          \o MergePass(SubSeq(s, stop + 1, Len(s)), width)

RECURSIVE MergeSortByDate(_, _)
MergeSortByDate(s, width) ==
  IF width >= Len(s) THEN s ELSE MergeSortByDate(MergePass(s, width), 2 * width)

\* info.disbursements.sort((a, b) => ...), as the engine of this run does it
SortByDate(s) ==
  IF engine = "timsort" THEN TimSortByDate(s) ELSE MergeSortByDate(s, 1)

\* info.disbursements.sort(...)[0]?.disbursement_date || ''
StoryDate(info) ==
  LET sorted == SortByDate(info.disbursements)
  IN IF sorted = <<>> THEN "" ELSE sorted[1].disbursement_date

\* the severity with the total tested before the payer count
VendorSeverityTotalFirst(payers, total) ==
  IF total >= highTotal THEN "high"
  ELSE IF payers >= criticalPayers THEN "critical" ELSE "medium"

VendorSeverity(payers, total) ==
  IF payers >= criticalPayers THEN "critical"
  ELSE IF total >= highTotal THEN "high" ELSE "medium"

\* entity-level grouping at the committee-level total threshold
useEntitiesAtMinTotal(info) ==
  Len(info.entities) >= minPayers /\ info.total >= minTotal

useEntities(info) ==
  Len(info.entities) >= minPayers /\ info.total >= entityMinTotal

useCommittees(info) ==
  ~useEntities(info) /\ Len(info.committees) >= minPayers /\ info.total >= minTotal

\* the story (or none) pushed for one vendor of vendorMap
VendorStory(info) ==
  LET entityList == SortByAmountDesc(info.entities)
      committeeList == SortByAmountDesc(info.committees)
  IN IF useEntities(info)
     THEN << [id |-> "siphon-" \o Slice(info.key, idPrefixLen),
              pattern |-> "VENDOR_SIPHONING",
              severity |-> VendorSeverity(Len(info.entities), info.total),
              headline |-> <<info.key, "politicians">>,
              entities |-> [k \in 1..Len(entityList) |->
                              [id |-> entityList[k].key, name |-> entityList[k].name]],
              totalMoney |-> info.total,
              date |-> StoryDate(info),
              networkSize |-> Len(info.entities),
              sourceCount |-> 1] >>
     ELSE IF useCommittees(info)
     THEN << [id |-> "siphon-" \o Slice(info.key, idPrefixLen),
              pattern |-> "VENDOR_SIPHONING",
              severity |-> VendorSeverity(Len(info.committees), info.total),
              headline |-> <<info.key, "committees">>,
              entities |-> [k \in 1..Len(committeeList) |->
                              [id |-> committeeList[k].key, name |-> committeeList[k].name]],
              totalMoney |-> info.total,
              date |-> StoryDate(info),
              networkSize |-> Len(info.committees),
              sourceCount |-> 1] >>
     ELSE <<>>

\* the array that vendorMap's k-th entry fills and later sorts: the data.disbursements
\* array itself instead of an array of its own
ArrayOfInput(k) == <<"input", 0>>

\* vendorMap.set(vendor, {..., disbursements: []}): the k-th entry's array is a new one
ArrayOf(k) == <<"own", k>>

\* the arrays after the in-place sort of the one that ref names
SortAt(heap, ref) ==
  IF ref[1] = "input" THEN [heap EXCEPT !.input = SortByDate(@)]
  ELSE [heap EXCEPT !.own[ref[2]] = SortByDate(@)]

RECURSIVE SortsApplied(_, _, _)
\* the arrays after the story loop has handled the first k entries of vendorMap: an
\* entry's array is sorted when a story is pushed for it
SortsApplied(heap, vm, k) ==
  IF k = 0 THEN heap
  ELSE LET h == SortsApplied(heap, vm, k - 1)
       IN IF VendorStory(vm[k]) = <<>> THEN h ELSE SortAt(h, ArrayOf(k))

\* data.disbursements as detectVendorSiphoning leaves it
InputAfterVendorSiphoning(d) ==
  LET vm == vendorMap(d)
      heap == [input |-> d.disbursements,
               own |-> [k \in 1..Len(vm) |-> vm[k].disbursements]]
  IN SortsApplied(heap, vm, Len(vm)).input

detectVendorSiphoning(d) ==
  LET vm == vendorMap(d)
  IN Flatten([k \in 1..Len(vm) |-> VendorStory(vm[k])])

(***************************************************************************)
(* Signals: filter by signal_type, group by a key in first-seen order.     *)
(***************************************************************************)
SignalsOfType(d, t) ==
  Filter(d.signals, {i \in 1..Len(d.signals) : d.signals[i].signal_type = t})

\* a || b on nullable numbers (0 and null are falsy)
NumOrElse(a, b) == IF a # <<>> /\ a[1] # 0 THEN a ELSE b

\* String(d?.vendor || d?.recipient || 'unknown')
\* the vendor key without the 'unknown' default
DetailVendorNoDefault(det) == StrOr(det.vendor, det.recipient)

DetailVendor(det) == StrOr(det.vendor, StrOr(det.recipient, "unknown"))

(***************************************************************************)
(* 2. detectCrossCampaignNetworks                                          *)
(***************************************************************************)
crossHighEntities == 4

crossMinEntities == 2

\* Number(d?.total_amount || d?.amount || 0)
\* the amount field alone
CrossAmountFieldOnly(det) == NumOr0(det.amount)

CrossAmount(det) == NumOr0(NumOrElse(det.total_amount, det.amount))

\* net.entityIds of one vendor group, kept as a list instead of a Set
CrossEntityIdsList(sigs) ==
  LET withId == Filter(sigs, {i \in 1..Len(sigs) : sigs[i].entity_id # ""})
  IN [i \in 1..Len(withId) |-> withId[i].entity_id]

\* net.entityIds of one vendor group: a Set, in insertion order
CrossEntityIds(sigs) ==
  LET withId == Filter(sigs, {i \in 1..Len(sigs) : sigs[i].entity_id # ""})
  IN Distinct([i \in 1..Len(withId) |-> withId[i].entity_id])

CrossStory(d, vendor, sigs) ==
  LET entityIds == CrossEntityIds(sigs)
      totalAmount == SumSeq([i \in 1..Len(sigs) |-> CrossAmount(sigs[i].details)])
  IN IF Len(entityIds) < crossMinEntities THEN <<>>
     ELSE << [id |-> "crosscampaign-" \o Slice(vendor, idPrefixLen),
              pattern |-> "CROSS_CAMPAIGN_NETWORK",
              severity |-> IF Len(entityIds) >= crossHighEntities THEN "high" ELSE "medium",
              headline |-> <<vendor>>,
              entities |-> [k \in 1..Len(entityIds) |->
                              [id |-> entityIds[k], name |-> entityName(d.entities, entityIds[k])]],
              totalMoney |-> totalAmount,
              networkSize |-> Len(entityIds),
              sourceCount |-> 1] >>

detectCrossCampaignNetworks(d) ==
  LET crossSignals == SignalsOfType(d, "CROSS_CAMPAIGN")
      vendorOf == [i \in 1..Len(crossSignals) |-> DetailVendor(crossSignals[i].details)]
      vendors == Distinct(vendorOf)
  IN Flatten([k \in 1..Len(vendors) |->
        CrossStory(d, vendors[k],
                   Filter(crossSignals,
                          {i \in 1..Len(crossSignals) : vendorOf[i] = vendors[k]}))])

(***************************************************************************)
(* 3. detectRevolvingDoor                                                  *)
(***************************************************************************)
ldaSources == {"Senate LDA", "senate_lda", "LDA"}

revolvingHighLobbyists == 3

lobbyistNameLen == 10

maxListed == 5

\* a finding's detail.revolving_door_lobbyists: <<>> when absent, else <<list>>
LdaFindings(inv) ==
  Filter(inv.findings,
         {i \in 1..Len(inv.findings) :
            inv.findings[i].source \in ldaSources
            /\ inv.findings[i].revolving_door_lobbyists # <<>>})

RevolvingStory(d, inv, finding) ==
  LET lobbyists == finding.revolving_door_lobbyists[1]
      name == StrOr(inv.entity_name, entityName(d.entities, inv.entity_id))
      listed == SubSeq(lobbyists, 1, IF Len(lobbyists) < maxListed THEN Len(lobbyists) ELSE maxListed)
  IN IF Len(lobbyists) = 0 THEN <<>>
     ELSE << [id |-> "revolving-" \o inv.entity_id \o "-" \o Slice(lobbyists[1].name, lobbyistNameLen),
              pattern |-> "REVOLVING_DOOR",
              severity |-> IF Len(lobbyists) >= revolvingHighLobbyists THEN "high" ELSE "medium",
              headline |-> <<name>>,
              entities |-> <<[id |-> inv.entity_id, name |-> name]>>
                           \o [k \in 1..Len(listed) |-> [id |-> "", name |-> listed[k].name]],
              totalMoney |-> 0,
              networkSize |-> Len(lobbyists) + 1,
              sourceCount |-> 1] >>

detectRevolvingDoor(d) ==
  Flatten([n \in 1..Len(d.investigations) |->
    LET inv == d.investigations[n]
        lda == LdaFindings(inv)
    IN Flatten([k \in 1..Len(lda) |-> RevolvingStory(d, inv, lda[k])])])

(***************************************************************************)
(* 4. detectFamilyPayments                                                 *)
(***************************************************************************)
familyHighTotal == 100000

FamilyStory(d, eid, sigs) ==
  LET totalAmount == SumSeq([i \in 1..Len(sigs) |-> NumOr0(sigs[i].details.amount)])
      name == entityName(d.entities, eid)
      uniqueRecipients ==
        Distinct([i \in 1..Len(sigs) |-> StrOr(sigs[i].details.recipient, "unknown")])
  IN << [id |-> "family-" \o eid,
         pattern |-> "FAMILY_PAYMENTS",
         severity |-> IF totalAmount >= familyHighTotal THEN "high" ELSE "medium",
         headline |-> <<name>>,
         entities |-> <<[id |-> eid, name |-> name]>>
                      \o [k \in 1..Len(uniqueRecipients) |->
                            [id |-> "", name |-> uniqueRecipients[k]]],
         totalMoney |-> totalAmount,
         networkSize |-> Len(uniqueRecipients) + 1,
         sourceCount |-> 1] >>

detectFamilyPayments(d) ==
  LET spousal == SignalsOfType(d, "FEC_SPOUSE_PAYMENT")
      eids == Distinct([i \in 1..Len(spousal) |-> spousal[i].entity_id])
  IN Flatten([k \in 1..Len(eids) |->
        FamilyStory(d, eids[k],
                    Filter(spousal, {i \in 1..Len(spousal) : spousal[i].entity_id = eids[k]}))])

(***************************************************************************)
(* 5. detectSanctionsFlags                                                 *)
(***************************************************************************)
\* r.list_name || r.source, for fields that hold <<>> (null) or <<text>>
\* the source read before the list name
ListOfSourceFirst(r) ==
  IF r.source # <<>> /\ r.source[1] # "" THEN r.source ELSE r.list_name

ListOf(r) ==
  IF r.list_name # <<>> /\ r.list_name[1] # "" THEN r.list_name ELSE r.source

\* l.includes('SDN') || l.includes('OFAC') || l.includes('Sanctions')
ListMatches(l) ==
  l # <<>> /\ (Includes(l[1], "SDN") \/ Includes(l[1], "OFAC") \/ Includes(l[1], "Sanctions"))

\* [...new Set(results.map((r) => r.list_name || r.source))]
ListsOf(results) == Distinct([i \in 1..Len(results) |-> ListOf(results[i])])

\* lists.some(...) calls l.includes on a null l unless an earlier list already matched
SanctionsGroupThrows(results) ==
  LET lists == ListsOf(results)
  IN \E i \in 1..Len(lists) :
       lists[i] = <<>> /\ \A j \in 1..(i - 1) : ~ListMatches(lists[j])

SanctionsStory(name, results) ==
  LET lists == ListsOf(results)
  IN << [id |-> "sanctions-" \o Slice(name, idPrefixLen),
         pattern |-> "SANCTIONS_FLAG",
         severity |-> IF \E i \in 1..Len(lists) : ListMatches(lists[i])
                      THEN "critical" ELSE "high",
         headline |-> <<name>>,
         entities |-> <<[id |-> "", name |-> name]>>,
         totalMoney |-> 0,
         networkSize |-> 1,
         sourceCount |-> Len(lists)] >>

\* byEntity: the screenings grouped by entity_name || 'unknown', in first-seen order
SanctionsGroups(d) ==
  LET keyOf == [i \in 1..Len(d.screenings) |-> StrOr(d.screenings[i].entity_name, "unknown")]
      names == Distinct(keyOf)
  IN [k \in 1..Len(names) |->
        [name |-> names[k],
         results |-> Filter(d.screenings,
                            {i \in 1..Len(d.screenings) : keyOf[i] = names[k]})]]

\* the first group whose story construction throws a TypeError, 0 when none does
SanctionsThrowAt(d) ==
  LET groups == SanctionsGroups(d)
      bad == {k \in 1..Len(groups) : SanctionsGroupThrows(groups[k].results)}
  IN IF bad = {} THEN 0 ELSE CHOOSE k \in bad : \A m \in bad : k <= m

SanctionsThrows(d) == SanctionsThrowAt(d) # 0

\* the stories pushed: one per group, up to the group that throws
detectSanctionsFlags(d) ==
  LET groups == SanctionsGroups(d)
      last == IF SanctionsThrows(d) THEN SanctionsThrowAt(d) - 1 ELSE Len(groups)
  IN Flatten([k \in 1..last |-> SanctionsStory(groups[k].name, groups[k].results)])

(***************************************************************************)
(* 6. detectHighVolumePassThrough                                          *)
(***************************************************************************)
highVolMinTotal == 50000

highVolHighTotal == 500000

HighVolumeStory(d, eid, sigs) ==
  LET name == entityName(d.entities, eid)
      totalAmount == SumSeq([i \in 1..Len(sigs) |-> NumOr0(sigs[i].details.total_amount)])
      vendors == Distinct([i \in 1..Len(sigs) |-> DetailVendor(sigs[i].details)])
      listed == SubSeq(vendors, 1, IF Len(vendors) < maxListed THEN Len(vendors) ELSE maxListed)
  IN IF totalAmount < highVolMinTotal THEN <<>>
     ELSE << [id |-> "highvol-" \o eid,
              pattern |-> "HIGH_VOLUME_PASS_THROUGH",
              severity |-> IF totalAmount >= highVolHighTotal THEN "high" ELSE "medium",
              headline |-> <<name>>,
              entities |-> <<[id |-> eid, name |-> name]>>
                           \o [k \in 1..Len(listed) |-> [id |-> "", name |-> listed[k]]],
              totalMoney |-> totalAmount,
              networkSize |-> Len(vendors) + 1,
              sourceCount |-> 1] >>

detectHighVolumePassThrough(d) ==
  LET hvSignals == SignalsOfType(d, "FEC_HIGH_VOLUME")
      eids == Distinct([i \in 1..Len(hvSignals) |-> hvSignals[i].entity_id])
  IN Flatten([k \in 1..Len(eids) |->
        HighVolumeStory(d, eids[k],
                        Filter(hvSignals,
                               {i \in 1..Len(hvSignals) : hvSignals[i].entity_id = eids[k]}))])

(***************************************************************************)
(* 7. detectDarkMoneyClusters                                              *)
(***************************************************************************)
minRelationships == 2

minClusterSize == 3

clusterHighSize == 5

clusterHighMoney == 200000

\* adj.get(k).add(x) after `if (!adj.has(k)) adj.set(k, new Set())`
AdjAdd(adj, k, x) ==
  LET i == KeyIndex(adj, k)
  IN [adj EXCEPT ![i].nbrs = IF Contains(@, x) THEN @ ELSE Append(@, x)]

AdjEnsure(adj, k) ==
  IF KeyIndex(adj, k) = 0 THEN Append(adj, [key |-> k, nbrs |-> <<>>]) ELSE adj

RECURSIVE BuildAdjDirected(_, _)
\* the adjacency Map with the back edge (target -> source) left out
BuildAdjDirected(rels, n) ==
  IF n = 0 THEN <<>>
  ELSE LET r == rels[n]
           a1 == AdjEnsure(AdjEnsure(BuildAdjDirected(rels, n - 1), r.source_entity_id),
                           r.target_entity_id)
       IN AdjAdd(a1, r.source_entity_id, r.target_entity_id)

RECURSIVE BuildAdj(_, _)
\* the adjacency Map after the first n relationships; Step is one iteration of the
\* loop, applied to the Map the iterations before it have built
BuildAdj(rels, n) ==
  IF n = 0 THEN <<>>
  ELSE LET r == rels[n]
           Step(adj) ==
             LET a1 == AdjEnsure(AdjEnsure(adj, r.source_entity_id), r.target_entity_id)
             IN AdjAdd(AdjAdd(a1, r.source_entity_id, r.target_entity_id),
                       r.target_entity_id, r.source_entity_id)
       IN CHOOSE next \in {Step(adj) : adj \in {BuildAdj(rels, n - 1)}} : TRUE

RECURSIVE BuildBridgeScores(_, _)
\* the bridgeScores Map after the first n kb_nodes
BuildBridgeScores(nodes, n) ==
  IF n = 0 THEN <<>>
  ELSE LET m == BuildBridgeScores(nodes, n - 1)
           eid == nodes[n].entity_id
           score == NumOr0(nodes[n].bridge_score)
       IN IF eid # "" /\ score > 0
          THEN IF KeyIndex(m, eid) = 0
               THEN Append(m, [key |-> eid, score |-> score])
               ELSE [m EXCEPT ![KeyIndex(m, eid)].score = score]
          ELSE m

\* bridgeScores.get(id) || 0
ScoreOf(bridgeScores, id) ==
  IF KeyIndex(bridgeScores, id) = 0 THEN 0 ELSE bridgeScores[KeyIndex(bridgeScores, id)].score

\* the neighbours pushed on the stack for cur: those not yet visited
Unvisited(nbrs, visited) ==
  Filter(nbrs, {i \in 1..Len(nbrs) : nbrs[i] \notin visited})

RECURSIVE Traverse(_, _, _, _)
\* the while loop over the work list (queue.pop() takes the last element)
Traverse(adj, queue, visited, cluster) ==
  IF queue = <<>> THEN [visited |-> visited, cluster |-> cluster]
  ELSE LET cur == queue[Len(queue)]
           rest == SubSeq(queue, 1, Len(queue) - 1)
       IN IF cur \in visited THEN Traverse(adj, rest, visited, cluster)
          ELSE LET v2 == visited \cup {cur}
                   nbrs == IF KeyIndex(adj, cur) = 0 THEN <<>> ELSE adj[KeyIndex(adj, cur)].nbrs
               IN Traverse(adj, rest \o Unvisited(nbrs, v2), v2, Append(cluster, cur))

\* the locals of the component search: the adjacency Map, the index k of the loop over
\* its keys, the work list, the visited Set, the cluster being collected, the clusters kept
NoTraversal ==
  [adj |-> <<>>, k |-> 0, queue |-> <<>>, visited |-> {}, cluster |-> <<>>, clusters |-> <<>>]

\* one iteration of the while loop that adds cur without looking it up in visited
PopStepNoRecheck(t) ==
  LET cur == t.queue[Len(t.queue)]
      rest == SubSeq(t.queue, 1, Len(t.queue) - 1)
      v2 == t.visited \cup {cur}
      nbrs == IF KeyIndex(t.adj, cur) = 0 THEN <<>> ELSE t.adj[KeyIndex(t.adj, cur)].nbrs
  IN [t EXCEPT !.queue = rest \o Unvisited(nbrs, v2),
               !.visited = v2,
               !.cluster = Append(@, cur)]

\* one iteration of the while loop: pop, skip when visited, else visit and push
PopStep(t) ==
  LET cur == t.queue[Len(t.queue)]
      rest == SubSeq(t.queue, 1, Len(t.queue) - 1)
      v2 == t.visited \cup {cur}
      nbrs == IF KeyIndex(t.adj, cur) = 0 THEN <<>> ELSE t.adj[KeyIndex(t.adj, cur)].nbrs
  IN IF cur \in t.visited THEN [t EXCEPT !.queue = rest]
     ELSE [t EXCEPT !.queue = rest \o Unvisited(nbrs, v2),
                    !.visited = v2,
                    !.cluster = Append(@, cur)]

RECURSIVE FindClustersFresh(_, _, _, _)
\* the loop over adj's keys with a visited set of its own for every start key
FindClustersFresh(adj, k, visited, clusters) ==
  IF k > Len(adj) THEN clusters
  ELSE LET t == Traverse(adj, <<adj[k].key>>, {}, <<>>)
       IN FindClustersFresh(adj, k + 1, {},
                            IF Len(t.cluster) >= minClusterSize
                            THEN Append(clusters, t.cluster) ELSE clusters)

RECURSIVE FindClusters(_, _, _, _)
\* the loop over adj's keys from index k on
FindClusters(adj, k, visited, clusters) ==
  IF k > Len(adj) THEN clusters
  ELSE IF adj[k].key \in visited THEN FindClusters(adj, k + 1, visited, clusters)
  ELSE LET t == Traverse(adj, <<adj[k].key>>, visited, <<>>)
       IN FindClusters(adj, k + 1, t.visited,
                       IF Len(t.cluster) >= minClusterSize
                       THEN Append(clusters, t.cluster) ELSE clusters)

\* entityDisbursements.get(id) || 0
EntityDisbursements(d, id) ==
  SumSeq([i \in 1..Len(d.disbursements) |->
            IF d.disbursements[i].entity_id # "" /\ d.disbursements[i].entity_id = id
            THEN NumOr0(d.disbursements[i].disbursement_amount) ELSE 0])

RECURSIVE MaxBridge(_, _, _)
\* Math.max(...cluster.map((id) => bridgeScores.get(id) || 0)) over the first n members
MaxBridge(bridgeScores, cluster, n) ==
  IF n = 1 THEN ScoreOf(bridgeScores, cluster[1])
  ELSE LET m == MaxBridge(bridgeScores, cluster, n - 1)
           x == ScoreOf(bridgeScores, cluster[n])
       IN IF x > m THEN x ELSE m

RECURSIVE HubOfLastMax(_, _, _)
\* the reduce with >= in place of >: the last member with the greatest score
HubOfLastMax(bridgeScores, cluster, n) ==
  IF n = 0 THEN cluster[1]
  ELSE LET best == HubOfLastMax(bridgeScores, cluster, n - 1)
       IN IF ScoreOf(bridgeScores, cluster[n]) >= ScoreOf(bridgeScores, best)
          THEN cluster[n] ELSE best

RECURSIVE HubOf(_, _, _)
\* cluster.reduce((best, id) => score(id) > score(best) ? id : best, cluster[0])
HubOf(bridgeScores, cluster, n) ==
  IF n = 0 THEN cluster[1]
  ELSE LET best == HubOf(bridgeScores, cluster, n - 1)
       IN IF ScoreOf(bridgeScores, cluster[n]) > ScoreOf(bridgeScores, best)
          THEN cluster[n] ELSE best

RECURSIVE ReplaceUnderscores(_)
\* relationship_type.replace(/_/g, ' ')
ReplaceUnderscores(s) ==
  IF Len(s) = 0 THEN ""
  ELSE (IF SubSeq(s, 1, 1) = "_" THEN " " ELSE SubSeq(s, 1, 1))
       \o ReplaceUnderscores(SubSeq(s, 2, Len(s)))

\* the severity with "or" in place of "and"
ClusterSeverityEither(size, clusterMoney) ==
  IF size >= clusterHighSize \/ clusterMoney >= clusterHighMoney THEN "high"
  ELSE IF size >= minClusterSize THEN "medium" ELSE "info"

ClusterSeverity(size, clusterMoney) ==
  IF size >= clusterHighSize /\ clusterMoney >= clusterHighMoney THEN "high"
  ELSE IF size >= minClusterSize THEN "medium" ELSE "info"

ClusterStory(d, bridgeScores, cluster) ==
  LET clusterMoney == SumSeq([i \in 1..Len(cluster) |-> EntityDisbursements(d, cluster[i])])
      hubEntity == HubOf(bridgeScores, cluster, Len(cluster))
      clusterRels ==
        Filter(d.relationships,
               {i \in 1..Len(d.relationships) :
                  Contains(cluster, d.relationships[i].source_entity_id)
                  /\ Contains(cluster, d.relationships[i].target_entity_id)})
      relTypes == Distinct([i \in 1..Len(clusterRels) |->
                              ReplaceUnderscores(clusterRels[i].relationship_type)])
  IN [id |-> "cluster-" \o hubEntity,
      pattern |-> "DARK_MONEY_CLUSTER",
      severity |-> ClusterSeverity(Len(cluster), clusterMoney),
      headline |-> <<entityName(d.entities, hubEntity)>>,
      entities |-> [k \in 1..Len(cluster) |->
                      [id |-> cluster[k], name |-> entityName(d.entities, cluster[k])]],
      totalMoney |-> clusterMoney,
      networkSize |-> Len(cluster),
      sourceCount |-> Len(relTypes),
      maxBridge |-> MaxBridge(bridgeScores, cluster, Len(cluster))]

detectDarkMoneyClusters(d) ==
  IF Len(d.relationships) < minRelationships THEN <<>>
  ELSE LET adj == BuildAdj(d.relationships, Len(d.relationships))
           bridgeScores == BuildBridgeScores(d.kbNodes, Len(d.kbNodes))
           clusters == FindClusters(adj, 1, {}, <<>>)
       IN [k \in 1..Len(clusters) |-> ClusterStory(d, bridgeScores, clusters[k])]

(***************************************************************************)
(* 8. detectInvestigationStories                                           *)
(***************************************************************************)
minFindings == 2

invHighFindings == 6

invMediumFindings == 3

\* the suppression rule switched off
NeverCovered(acc, inv) == FALSE

\* the pattern test of the suppression rule left out
alreadyCoveredAnyPattern(acc, inv) ==
  \E i \in 1..Len(acc) :
     \E k \in 1..Len(acc[i].entities) : acc[i].entities[k].id = inv.entity_id

\* stories.some((s) => s.entities.some((e) => e.id === inv.entity_id)
\*                     && s.pattern !== 'INVESTIGATION_FINDINGS')
alreadyCovered(acc, inv) ==
  \E i \in 1..Len(acc) :
     /\ \E k \in 1..Len(acc[i].entities) : acc[i].entities[k].id = inv.entity_id
     /\ acc[i].pattern # "INVESTIGATION_FINDINGS"

\* the sum of every disbursement, whoever paid it
EntityMoneyAll(d, inv) ==
  SumSeq([i \in 1..Len(d.disbursements) |-> NumOr0(d.disbursements[i].disbursement_amount)])

\* data.disbursements.filter((d) => d.entity_id === inv.entity_id).reduce(...)
EntityMoney(d, inv) ==
  SumSeq([i \in 1..Len(d.disbursements) |->
            IF d.disbursements[i].entity_id = inv.entity_id
            THEN NumOr0(d.disbursements[i].disbursement_amount) ELSE 0])

\* one iteration of the loop over data.investigations; acc is the shared stories list
InvestigationStep(d, acc, inv) ==
  LET findings == inv.findings
      name == StrOr(inv.entity_name, entityName(d.entities, inv.entity_id))
      sources == Distinct([i \in 1..Len(findings) |-> findings[i].source])
  IN IF Len(findings) < minFindings THEN acc
     ELSE IF alreadyCovered(acc, inv) THEN acc
     ELSE Append(acc,
            [id |-> "inv-" \o inv.id,
             pattern |-> "INVESTIGATION_FINDINGS",
             severity |-> IF Len(findings) >= invHighFindings THEN "high"
                          ELSE IF Len(findings) >= invMediumFindings THEN "medium"
                          ELSE "info",
             headline |-> <<name>>,
             entities |-> <<[id |-> inv.entity_id, name |-> name]>>,
             totalMoney |-> EntityMoney(d, inv),
             networkSize |-> 1,
             sourceCount |-> Len(sources)])

RECURSIVE detectInvestigationStories(_, _, _)
\* the stories list after the first n investigations
detectInvestigationStories(d, acc, n) ==
  IF n = 0 THEN acc
  ELSE InvestigationStep(d, detectInvestigationStories(d, acc, n - 1), d.investigations[n])

(***************************************************************************)
(* Fallback and final sort of classifyStories.                             *)
(***************************************************************************)
\* the fallback condition with the data test left out
FallbackWheneverEmpty(d, acc) == Len(acc) = 0

\* the fallback condition with the entities test left out
FallbackIgnoresEntities(d, acc) ==
  Len(acc) = 0 /\ (Len(d.disbursements) > 0 \/ Len(d.signals) > 0)

\* stories.length === 0 && (disbursements.length > 0 || entities.length > 0 || signals.length > 0)
FallbackApplies(d, acc) ==
  Len(acc) = 0
  /\ (Len(d.disbursements) > 0 \/ Len(d.entities) > 0 \/ Len(d.signals) > 0)

DataLoadedStory(d) ==
  LET totalDisb == SumSeq([i \in 1..Len(d.disbursements) |->
                             NumOr0(d.disbursements[i].disbursement_amount)])
  IN [id |-> "data-loaded",
      pattern |-> "DATA_LOADED",
      severity |-> "info",
      headline |-> <<"Data loaded; no patterns above threshold yet">>,
      entities |-> <<>>,
      totalMoney |-> totalDisb,
      networkSize |-> 0,
      sourceCount |-> 1]

severityOrder == [critical |-> 0, high |-> 1, medium |-> 2, info |-> 3]

\* the comparator with the money tie-break ascending
StoryCompareMoneyAscending(a, b) ==
  LET sd == severityOrder[a.severity] - severityOrder[b.severity]
  IN IF sd # 0 THEN sd ELSE a.totalMoney - b.totalMoney

\* (a, b) => severity difference, else b.totalMoney - a.totalMoney
StoryCompare(a, b) ==
  LET sd == severityOrder[a.severity] - severityOrder[b.severity]
  IN IF sd # 0 THEN sd ELSE b.totalMoney - a.totalMoney

RECURSIVE InsertStoryBeforeTies(_, _)
\* the insertion that moves a story in front of the stories it ties with
InsertStoryBeforeTies(sorted, x) ==
  IF sorted = <<>> THEN <<x>>
  ELSE LET y == sorted[Len(sorted)]
       IN IF StoryCompare(y, x) >= 0
          THEN Append(InsertStoryBeforeTies(SubSeq(sorted, 1, Len(sorted) - 1), x), y)
          ELSE Append(sorted, x)

RECURSIVE InsertStory(_, _)
InsertStory(sorted, x) ==
  IF sorted = <<>> THEN <<x>>
  ELSE LET y == sorted[Len(sorted)]
       IN IF StoryCompare(y, x) > 0
          THEN Append(InsertStory(SubSeq(sorted, 1, Len(sorted) - 1), x), y)
          ELSE Append(sorted, x)

RECURSIVE SortStoriesDropTies(_)
\* a sort that keeps one story of those that compare equal
SortStoriesDropTies(s) ==
  IF s = <<>> THEN <<>>
  ELSE LET rest == SortStoriesDropTies(SubSeq(s, 1, Len(s) - 1))
           x == s[Len(s)]
       IN IF \E i \in 1..Len(rest) : StoryCompare(rest[i], x) = 0 THEN rest
          ELSE InsertStory(rest, x)

RECURSIVE SortStories(_)
\* Array.prototype.sort with StoryCompare: stable
SortStories(s) ==
  IF s = <<>> THEN <<>>
  ELSE InsertStory(SortStories(SubSeq(s, 1, Len(s) - 1)), s[Len(s)])

(***************************************************************************)
(* Input snapshots.                                                        *)
(***************************************************************************)
DisbOn(name, eid, cid, cname, amt, date) ==
  [recipient_name |-> name, entity_id |-> eid, committee_id |-> cid,
   committee_name |-> cname, disbursement_amount |-> amt, disbursement_date |-> date]

\* a disbursement row without a date
Disb(name, eid, cid, cname, amt) == DisbOn(name, eid, cid, cname, amt, "")

Sig(type, eid, vendor, recipient, amount, total) ==
  [signal_type |-> type, entity_id |-> eid,
   details |-> [vendor |-> vendor, recipient |-> recipient,
                amount |-> amount, total_amount |-> total]]

Finding(source, lobbyists) == [source |-> source, revolving_door_lobbyists |-> lobbyists]

Inv(id, eid, ename, findings) ==
  [id |-> id, entity_id |-> eid, entity_name |-> ename, findings |-> findings]

Scr(name, list, source) == [entity_name |-> name, list_name |-> list, source |-> source]

Rel(src, tgt, type) ==
  [source_entity_id |-> src, target_entity_id |-> tgt, relationship_type |-> type,
   is_current |-> TRUE]

\* a relationship row whose "currently active" flag is false
Ended(src, tgt, type) == [Rel(src, tgt, type) EXCEPT !.is_current = FALSE]

Node(eid, score) == [entity_id |-> eid, bridge_score |-> score]

Ent(id, name) == [id |-> id, canonical_name |-> name]

EmptySnapshot ==
  [signals |-> <<>>, investigations |-> <<>>, relationships |-> <<>>, entities |-> <<>>,
   disbursements |-> <<>>, screenings |-> <<>>, kbNodes |-> <<>>]

\* the snapshot a then b: each of the seven sequences concatenated
Join(a, b) ==
  [signals |-> a.signals \o b.signals,
   investigations |-> a.investigations \o b.investigations,
   relationships |-> a.relationships \o b.relationships,
   entities |-> a.entities \o b.entities,
   disbursements |-> a.disbursements \o b.disbursements,
   screenings |-> a.screenings \o b.screenings,
   kbNodes |-> a.kbNodes \o b.kbNodes]

\* Record groups a snapshot of the mixed family is assembled from, in this order.
Parts ==
  << \* 1: three campaigns pay one vendor $20,000 each (raw names differ in case and spaces)
     [EmptySnapshot EXCEPT !.disbursements =
        << Disb("Acme Consulting", "e1", "C001", "Adams for Senate", <<20000>>),
           Disb("ACME CONSULTING ", "e2", "C002", "Brown for Congress", <<20000>>),
           Disb(" acme consulting", "e3", "C003", "", <<20000>>) >>],
     \* 2: one payment with no payer identifiers at all and a placeholder recipient
     [EmptySnapshot EXCEPT !.disbursements =
        << Disb("Unknown", "", "", "", <<5000>>) >>],
     \* 3: the entity table
     [EmptySnapshot EXCEPT !.entities =
        << Ent("e1", "Alice Adams"), Ent("e2", "Bob Brown") >>],
     \* 4: spouse payments, one of them a refund
     [EmptySnapshot EXCEPT !.signals =
        << Sig("FEC_SPOUSE_PAYMENT", "e2", "", "Carol Brown", <<150000>>, <<>>),
           Sig("FEC_SPOUSE_PAYMENT", "e5", "", "", <<-500>>, <<>>) >>],
     \* 5: a shared vendor, one campaign flagged twice
     [EmptySnapshot EXCEPT !.signals =
        << Sig("CROSS_CAMPAIGN", "e1", "Beta Media", "", <<>>, <<40000>>),
           Sig("CROSS_CAMPAIGN", "e2", "", "Beta Media", <<30000>>, <<>>),
           Sig("CROSS_CAMPAIGN", "e1", "Beta Media", "", <<10000>>, <<0>>) >>],
     \* 6: a high-volume disburser
     [EmptySnapshot EXCEPT !.signals =
        << Sig("FEC_HIGH_VOLUME", "e3", "Gamma Mail", "", <<>>, <<600000>>) >>],
     \* 7: two screened names that agree on their first 20 characters
     [EmptySnapshot EXCEPT !.screenings =
        << Scr("Global Trading Partners East", <<"OFAC SDN">>, <<"opensanctions">>),
           Scr("Global Trading Partners West", <<>>, <<"PEP">>) >>],
     \* 8: an investigation of a paying campaign, and one of an entity nothing else names
     [EmptySnapshot EXCEPT !.investigations =
        << Inv("m1", "e1", "", << Finding("fec", <<>>), Finding("sec_edgar", <<>>) >>),
           Inv("m2", "e6", "Delta PAC",
               << Finding("fec", <<>>), Finding("fec", <<>>), Finding("sam_gov", <<>>) >>) >>],
     \* 9: an investigation with a lobbying finding
     [EmptySnapshot EXCEPT !.investigations =
        << Inv("m3", "e4", "Echo LLC",
               << Finding("Senate LDA", << << [name |-> "Frank Former-Staffer"] >> >>),
                  Finding("courtlistener", <<>>) >>) >>],
     \* 10: a path of three entities and a separate pair
     [EmptySnapshot EXCEPT
        !.relationships = << Rel("e1", "e7", "donor_to"), Rel("e7", "e8", "board_member"),
                             Rel("e9", "e10", "donor_to") >>,
        !.kbNodes = << Node("e7", <<90>>), Node("e1", <<10>>) >>]
  >>

RECURSIVE Assemble(_, _)
\* the parts chosen in `pick`, joined in ascending order
Assemble(pick, n) ==
  IF n = 0 THEN EmptySnapshot
  ELSE IF n \in pick THEN Join(Assemble(pick, n - 1), Parts[n]) ELSE Assemble(pick, n - 1)

MixedSnapshots == {Assemble(pick, Len(Parts)) : pick \in SUBSET (1..Len(Parts))}

MaxDisbursements == 3

MaxSignals == 3

\* every sequence of at most n elements of the list pool
SeqsUpTo(pool, n) ==
  UNION {{[i \in 1..k |-> pool[f[i]]] : f \in [1..k -> 1..Len(pool)]} : k \in 0..n}

EntityTable == << Ent("e1", "Alice Adams"), Ent("e2", "Bob Brown") >>

DisbursementPool ==
  << Disb("Acme Consulting", "e1", "C001", "Adams for Senate", <<20000>>),
     Disb("ACME CONSULTING ", "e2", "C002", "Brown for Congress", <<20000>>),
     Disb(" acme consulting", "e3", "", "Clark Victory Fund", <<20000>>),
     Disb("Acme Consulting", "", "", "", <<30000>>),
     Disb("Acme Consulting", "", "C004", "", <<>>),
     Disb("AB", "e1", "C001", "Adams for Senate", <<20000>>),
     Disb("ab ", "e2", "C002", "Brown for Congress", <<20000>>),
     Disb("Ab", "e3", "", "Clark Victory Fund", <<20000>>),
     Disb("", "e2", "C002", "Brown for Congress", <<20000>>) >>

\* payments in every order, with the entity table and one investigation of a payer
PaymentSnapshots ==
  {[EmptySnapshot EXCEPT
      !.disbursements = ds,
      !.entities = EntityTable,
      !.investigations =
         << Inv("m1", "e1", "", << Finding("fec", <<>>), Finding("sec_edgar", <<>>) >>) >>]
   : ds \in SeqsUpTo(DisbursementPool, MaxDisbursements)}

SignalPool ==
  << Sig("FEC_SPOUSE_PAYMENT", "e1", "", "Carol Adams", <<60000>>, <<>>),
     Sig("FEC_SPOUSE_PAYMENT", "e2", "", "Dan Brown", <<150000>>, <<>>),
     Sig("FEC_SPOUSE_PAYMENT", "e2", "", "", <<-500>>, <<>>),
     Sig("CROSS_CAMPAIGN", "e1", "Beta Media", "", <<>>, <<40000>>),
     Sig("CROSS_CAMPAIGN", "e2", "", "Beta Media", <<30000>>, <<>>),
     Sig("CROSS_CAMPAIGN", "e1", "Beta Media", "", <<10000>>, <<0>>),
     Sig("FEC_HIGH_VOLUME", "e3", "Gamma Mail", "", <<>>, <<600000>>),
     Sig("FEC_HIGH_VOLUME", "e1", "", "Gamma Mail", <<>>, <<80000>>),
     Sig("CROSS_CAMPAIGN", "e1", "", "", <<>>, <<>>),
     Sig("CROSS_CAMPAIGN", "e2", "", "", <<7000>>, <<>>),
     Sig("FEC_HIGH_VOLUME", "e2", "", "", <<>>, <<90000>>) >>

\* signals in every order, with the entity table
SignalSnapshots ==
  {[EmptySnapshot EXCEPT !.signals = ss, !.entities = EntityTable]
   : ss \in SeqsUpTo(SignalPool, MaxSignals)}

DatedPool ==
  << DisbOn("Acme Consulting", "e1", "C001", "Adams for Senate", <<20000>>, "2024-01-15"),
     DisbOn("Acme Consulting", "e2", "C002", "Brown for Congress", <<20000>>, "2024-03-01"),
     DisbOn("Acme Consulting", "e3", "C003", "Clark Victory Fund", <<20000>>, "2023-11-30"),
     DisbOn("Delta Print", "e1", "C001", "Adams for Senate", <<5000>>, "2024-06-30"),
     Disb("Acme Consulting", "e3", "C003", "Clark Victory Fund", <<20000>>) >>

\* dated payments in every order
DatedSnapshots ==
  {[EmptySnapshot EXCEPT !.disbursements = ds]
   : ds \in SeqsUpTo(DatedPool, MaxDisbursements)}

MaxPayers == 10

\* one vendor paid n times: payment i comes from entity e<i> when i <= k and from no
\* entity otherwise, through committee C<((i - 1) mod c) + 1>
PayerPayment(name, i, k, c, amt) ==
  Disb(name, IF i <= k THEN "e" \o ToString(i) ELSE "",
       "C" \o ToString(((i - 1) % c) + 1), "", <<amt>>)

PayerVendors == {"UNKNOWN", " n/a ", "ab", "", "Acme Consulting"}

PayerAmounts == {4000, 10000, 20000, 100000}

PayerSnapshots ==
  {[EmptySnapshot EXCEPT
      !.disbursements = [i \in 1..n |-> PayerPayment(name, i, k, c, amt)]]
   : name \in PayerVendors, amt \in PayerAmounts,
     n \in {2, 3, 5, MaxPayers}, k \in {0, 2, 3, 5, MaxPayers}, c \in {2, 3, 5, MaxPayers}}

MaxChain == 6

\* a chain e1 - e2 - ... - en of relationships whose first m members each paid amt
ChainSnapshots ==
  {[EmptySnapshot EXCEPT
      !.relationships = [i \in 1..(n - 1) |->
                           Rel("e" \o ToString(i), "e" \o ToString(i + 1), "donor_to")],
      !.disbursements = [i \in 1..m |-> PayerPayment("Acme Consulting", i, m, m, amt)]]
   : n \in 3..MaxChain, m \in {0, 2, 5}, amt \in {30000, 100000}}

MaxCross == 5

\* the three shapes of a signal's amounts: amount only, total_amount only, both
CrossForms == << [amount |-> <<1000>>, total_amount |-> <<>>],
                 [amount |-> <<>>, total_amount |-> <<2000>>],
                 [amount |-> <<1000>>, total_amount |-> <<3000>>] >>

\* n cross-campaign signals naming one vendor, from k distinct campaigns
CrossSnapshots ==
  {[EmptySnapshot EXCEPT
      !.entities = EntityTable,
      !.signals = [i \in 1..n |->
                     Sig("CROSS_CAMPAIGN", "e" \o ToString(((i - 1) % k) + 1), "Beta Media", "",
                         CrossForms[f].amount, CrossForms[f].total_amount)]]
   : n \in 1..MaxCross, k \in 1..MaxCross, f \in 1..Len(CrossForms)}

MaxFindings == 7

\* an investigation of e1 with n plain findings, with or without one more finding that
\* lists a lobbyist, followed or not by a second investigation of e1; e1 made p
\* payments of $7,000 and e2 one of $3,000
FindingsSnapshots ==
  {[EmptySnapshot EXCEPT
      !.entities = EntityTable,
      !.investigations =
         << Inv("m7", "e1", "",
                [i \in 1..n |-> Finding(IF i % 2 = 1 THEN "fec" ELSE "sec_edgar", <<>>)]
                \o (IF lda
                    THEN << Finding("Senate LDA", << << [name |-> "Frank Former-Staffer"] >> >>) >>
                    ELSE <<>>)) >>
         \o (IF k = 0 THEN <<>>
             ELSE << Inv("m8", "e1", "Adams Committee", [i \in 1..k |-> Finding("fec", <<>>)]) >>),
      !.disbursements =
         [i \in 1..p |-> Disb("Delta Print", "e1", "C001", "Adams for Senate", <<7000>>)]
         \o << Disb("Delta Print", "e2", "C002", "Brown for Congress", <<3000>>) >>]
   : n \in 0..MaxFindings, lda \in BOOLEAN, k \in {0, 2, 6}, p \in {0, 2}}

MaxRelationships == 3

RelationshipPool ==
  << Rel("a", "b", "donor_to"),
     Rel("b", "c", "board_member"),
     Rel("c", "b", "donor_to"),
     Rel("c", "d", "family_of"),
     Rel("d", "e", "donor_to"),
     Ended("b", "c", "board_member") >>

\* kb_nodes tables: none; three distinct scores; two equal scores, a zero and a missing one
BridgeScoreTables ==
  { <<>>,
    << Node("a", <<10>>), Node("b", <<90>>), Node("c", <<30>>) >>,
    << Node("c", <<50>>), Node("a", <<50>>), Node("d", <<0>>), Node("e", <<>>) >> }

\* relationships in every order, with each kb_nodes table
GraphSnapshots ==
  {[EmptySnapshot EXCEPT !.relationships = rs, !.kbNodes = kb]
   : rs \in SeqsUpTo(RelationshipPool, MaxRelationships), kb \in BridgeScoreTables}

\* two triangles, a self-loop and a repeated edge
LoopPool ==
  << Rel("a", "b", "donor_to"),
     Rel("b", "c", "board_member"),
     Rel("c", "a", "donor_to"),
     Rel("a", "a", "family_of"),
     Rel("a", "b", "donor_to"),
     Rel("x", "y", "donor_to"),
     Rel("y", "z", "donor_to"),
     Rel("z", "x", "board_member") >>

\* every sub-list of the pool, without kb_nodes and with a scored node in each triangle
LoopSnapshots ==
  {[EmptySnapshot EXCEPT
      !.relationships = Filter(LoopPool, pick),
      !.kbNodes = kb]
   : pick \in SUBSET (1..Len(LoopPool)),
     kb \in { <<>>, << Node("b", <<90>>), Node("y", <<90>>) >> }}

MaxScreenings == 3

\* the third and fourth rows carry neither a list name nor a source
ScreeningPool ==
  << Scr("Zeta Corp", <<"UN Sanctions List">>, <<"opensanctions">>),
     Scr("Eta Holdings", <<>>, <<"PEP">>),
     Scr("Zeta Corp", <<>>, <<>>),
     Scr("Theta Ltd", <<>>, <<>>),
     Scr("Eta Holdings", <<"ofac sdn">>, <<"">>),
     Scr("", <<"PEP">>, <<"OFAC API">>) >>

\* screenings in every order, alone and next to three campaigns paying one vendor
ScreeningSnapshots ==
  {Join(base, [EmptySnapshot EXCEPT !.screenings = ss])
   : base \in {EmptySnapshot, Parts[1]}, ss \in SeqsUpTo(ScreeningPool, MaxScreenings)}

Snapshots ==
  ChainSnapshots \cup LoopSnapshots \cup FindingsSnapshots \cup CrossSnapshots \cup DatedSnapshots \cup ScreeningSnapshots \cup MixedSnapshots \cup PaymentSnapshots \cup SignalSnapshots \cup PayerSnapshots
  \cup GraphSnapshots

\* the engines to run snapshot d on: when no disbursement has a date every comparison
\* of the date sort is 0 and both engines leave every array as it is
EnginesFor(d) ==
  IF \E i \in 1..Len(d.disbursements) : d.disbursements[i].disbursement_date # ""
  THEN Engines ELSE {"timsort"}

(***************************************************************************)
(* classifyStories as a state machine: one step per detector call, then    *)
(* the fallback and the sort.  The caller may call it again on the same    *)
(* snapshot.                                                               *)
(***************************************************************************)
MaxRuns == 2

\* const stories: ClassifiedStory[] = []  (a module-level list would keep the last run's)
StaleStories == stories

NewStories == <<>>

Init ==
  /\ data \in Snapshots
  /\ stories = <<>>
  /\ prev = <<>>
  /\ run = 0
  /\ pc = "idle"
  /\ pending = {}
  /\ engine \in EnginesFor(data)
  /\ trav = NoTraversal

\* the caller invokes classifyStories(data); prev keeps the previous return value
Call ==
  /\ pc \in {"idle", "done"}
  /\ run < MaxRuns
  /\ prev' = stories
  /\ stories' = NewStories
  /\ run' = run + 1
  /\ pc' = "vendor"
  /\ UNCHANGED <<data, pending, engine, trav>>

VendorSiphoning ==
  /\ pc = "vendor"
  /\ stories' = stories \o detectVendorSiphoning(data)
  /\ data' = [data EXCEPT !.disbursements = InputAfterVendorSiphoning(data)]
  /\ pc' = "cross"
  /\ UNCHANGED <<run, prev, pending, engine, trav>>

CrossCampaignNetworks ==
  /\ pc = "cross"
  /\ stories' = stories \o detectCrossCampaignNetworks(data)
  /\ pc' = "revolving"
  /\ UNCHANGED <<data, run, prev, pending, engine, trav>>

RevolvingDoor ==
  /\ pc = "revolving"
  /\ stories' = stories \o detectRevolvingDoor(data)
  /\ pc' = "family"
  /\ UNCHANGED <<data, run, prev, pending, engine, trav>>

FamilyPayments ==
  /\ pc = "family"
  /\ stories' = stories \o detectFamilyPayments(data)
  /\ pc' = "sanctions"
  /\ UNCHANGED <<data, run, prev, pending, engine, trav>>

SanctionsFlags ==
  /\ pc = "sanctions"
  /\ ~SanctionsThrows(data)
  /\ stories' = stories \o detectSanctionsFlags(data)
  /\ pc' = "highvol"
  /\ UNCHANGED <<data, run, prev, pending, engine, trav>>

\* the TypeError leaves detectSanctionsFlags and classifyStories: nothing catches it, no
\* later detector runs and the caller gets no list
SanctionsFlagsThrows ==
  /\ pc = "sanctions"
  /\ SanctionsThrows(data)
  /\ stories' = stories \o detectSanctionsFlags(data)
  /\ pc' = "thrown"
  /\ UNCHANGED <<data, run, prev, pending, engine, trav>>

HighVolumePassThrough ==
  /\ pc = "highvol"
  /\ stories' = stories \o detectHighVolumePassThrough(data)
  /\ pc' = "cluster"
  /\ UNCHANGED <<data, run, prev, pending, engine, trav>>

DarkMoneyClusters ==
  /\ pc = "cluster"
  /\ stories' = stories \o detectDarkMoneyClusters(data)
  /\ pc' = "investigation"
  /\ UNCHANGED <<data, run, prev, pending, engine, trav>>

InvestigationStories ==
  /\ pc = "investigation"
  /\ stories' = detectInvestigationStories(data, stories, Len(data.investigations))
  /\ pc' = "fallback"
  /\ UNCHANGED <<data, run, prev, pending, engine, trav>>

Fallback ==
  /\ pc = "fallback"
  /\ stories' = IF FallbackApplies(data, stories)
                THEN Append(stories, DataLoadedStory(data)) ELSE stories
  /\ pc' = "sort"
  /\ UNCHANGED <<data, run, prev, pending, engine, trav>>

SortAndReturn ==
  /\ pc = "sort"
  /\ stories' = SortStories(stories)
  /\ pc' = "done"
  /\ UNCHANGED <<data, run, prev, pending, engine, trav>>

Next ==
  \/ Call
  \/ VendorSiphoning
  \/ CrossCampaignNetworks
  \/ RevolvingDoor
  \/ FamilyPayments
  \/ SanctionsFlags
  \/ SanctionsFlagsThrows
  \/ HighVolumePassThrough
  \/ DarkMoneyClusters
  \/ InvestigationStories
  \/ Fallback
  \/ SortAndReturn

Spec == Init /\ [][Next]_vars

(***************************************************************************)
(* The same run with the first seven detector calls taken in any order: a  *)
(* reimplementation that schedules them freely.  pending holds the calls   *)
(* of lines 57-78 not yet made.                                            *)
(***************************************************************************)
Detectors ==
  {"vendor", "cross", "revolving", "family", "sanctions", "highvol", "cluster"}

\* what the call of detector x pushes
DetectorOutput(x, d) ==
  CASE x = "vendor" -> detectVendorSiphoning(d)
    [] x = "cross" -> detectCrossCampaignNetworks(d)
    [] x = "revolving" -> detectRevolvingDoor(d)
    [] x = "family" -> detectFamilyPayments(d)
    [] x = "sanctions" -> detectSanctionsFlags(d)
    [] x = "highvol" -> detectHighVolumePassThrough(d)
    [] x = "cluster" -> detectDarkMoneyClusters(d)

\* detectInvestigationStories scheduled like any other detector
InvestigationReadyAnytime(p) == TRUE

\* "runs last": detectInvestigationStories is called when the other seven calls are made
InvestigationReady(p) == p = {"investigation"}

MaxOrderParts == 3

\* the snapshots of at most MaxOrderParts record groups, and those with screenings
OrderSnapshots ==
  {Assemble(pick, Len(Parts)) :
     pick \in {q \in SUBSET (1..Len(Parts)) : Cardinality(q) <= MaxOrderParts}}
  \cup ScreeningSnapshots

InitAnyOrder ==
  /\ data \in OrderSnapshots
  /\ stories = <<>>
  /\ prev = <<>>
  /\ run = 0
  /\ pc = "idle"
  /\ pending = {}
  /\ engine \in EnginesFor(data)
  /\ trav = NoTraversal

CallAnyOrder ==
  /\ pc = "idle"
  /\ stories' = NewStories
  /\ run' = run + 1
  /\ pc' = "detectors"
  /\ pending' = Detectors \cup {"investigation"}
  /\ UNCHANGED <<data, prev, engine, trav>>

\* one of the first seven calls returns
RunDetector(x) ==
  /\ pc = "detectors"
  /\ x \in pending
  /\ ~(x = "sanctions" /\ SanctionsThrows(data))
  /\ stories' = stories \o DetectorOutput(x, data)
  /\ data' = IF x = "vendor"
             THEN [data EXCEPT !.disbursements = InputAfterVendorSiphoning(data)]
             ELSE data
  /\ pending' = pending \ {x}
  /\ pc' = IF pending' = {} THEN "fallback" ELSE "detectors"
  /\ UNCHANGED <<run, prev, engine, trav>>

\* the call of detectSanctionsFlags throws
RunDetectorThrows ==
  /\ pc = "detectors"
  /\ "sanctions" \in pending
  /\ SanctionsThrows(data)
  /\ stories' = stories \o detectSanctionsFlags(data)
  /\ pc' = "thrown"
  /\ UNCHANGED <<data, run, prev, pending, engine, trav>>

RunInvestigation ==
  /\ pc = "detectors"
  /\ "investigation" \in pending
  /\ InvestigationReady(pending)
  /\ stories' = detectInvestigationStories(data, stories, Len(data.investigations))
  /\ pending' = pending \ {"investigation"}
  /\ pc' = IF pending' = {} THEN "fallback" ELSE "detectors"
  /\ UNCHANGED <<data, run, prev, engine, trav>>

NextAnyOrder ==
  \/ CallAnyOrder
  \/ \E x \in Detectors : RunDetector(x)
  \/ RunDetectorThrows
  \/ RunInvestigation
  \/ Fallback
  \/ SortAndReturn

SpecAnyOrder == InitAnyOrder /\ [][NextAnyOrder]_vars

(***************************************************************************)
(* The component search of detectDarkMoneyClusters, one step per loop      *)
(* iteration.  The code is single-threaded: a step that can be taken is    *)
(* taken, which is the weak fairness of SpecTraversal.                     *)
(***************************************************************************)
AdjOf(d) == BuildAdj(d.relationships, Len(d.relationships))

InitTraversal ==
  /\ data \in LoopSnapshots \cup GraphSnapshots
  /\ stories = <<>>
  /\ prev = <<>>
  /\ run = 0
  /\ pc = "adjacency"
  /\ pending = {}
  /\ engine = "timsort"
  /\ trav = NoTraversal

\* if (data.relationships.length < 2) return
ReturnEarly ==
  /\ pc = "adjacency"
  /\ Len(data.relationships) < minRelationships
  /\ pc' = "traversed"
  /\ UNCHANGED <<data, stories, run, prev, pending, engine, trav>>

\* adj, bridgeScores, visited and clusters are built; the loop over adj starts
BuildAdjacency ==
  /\ pc = "adjacency"
  /\ Len(data.relationships) >= minRelationships
  /\ trav' = [NoTraversal EXCEPT !.adj = AdjOf(data), !.k = 1]
  /\ pc' = "for"
  /\ UNCHANGED <<data, stories, run, prev, pending, engine>>

\* if (visited.has(eid)) continue
ForSkip ==
  /\ pc = "for"
  /\ trav.k <= Len(trav.adj)
  /\ trav.adj[trav.k].key \in trav.visited
  /\ trav' = [trav EXCEPT !.k = @ + 1]
  /\ UNCHANGED <<data, stories, pc, run, prev, pending, engine>>

\* const cluster = []; const queue = [eid]
ForStart ==
  /\ pc = "for"
  /\ trav.k <= Len(trav.adj)
  /\ trav.adj[trav.k].key \notin trav.visited
  /\ trav' = [trav EXCEPT !.cluster = <<>>, !.queue = <<trav.adj[trav.k].key>>]
  /\ pc' = "while"
  /\ UNCHANGED <<data, stories, run, prev, pending, engine>>

WhileStep ==
  /\ pc = "while"
  /\ trav.queue # <<>>
  /\ trav' = PopStep(trav)
  /\ UNCHANGED <<data, stories, pc, run, prev, pending, engine>>

\* if (cluster.length >= 3) clusters.push(cluster), and the next key
WhileEnd ==
  /\ pc = "while"
  /\ trav.queue = <<>>
  /\ trav' = [trav EXCEPT !.clusters = IF Len(trav.cluster) >= minClusterSize
                                       THEN Append(@, trav.cluster) ELSE @,
                          !.k = @ + 1]
  /\ pc' = "for"
  /\ UNCHANGED <<data, stories, run, prev, pending, engine>>

ForEnd ==
  /\ pc = "for"
  /\ trav.k > Len(trav.adj)
  /\ pc' = "traversed"
  /\ UNCHANGED <<data, stories, run, prev, pending, engine, trav>>

NextTraversal ==
  \/ ReturnEarly
  \/ BuildAdjacency
  \/ ForSkip
  \/ ForStart
  \/ WhileStep
  \/ WhileEnd
  \/ ForEnd

SpecTraversal == InitTraversal /\ [][NextTraversal]_vars /\ WF_vars(NextTraversal)

\* the list classifyStories returns for snapshot d, its calls made in the order of the code
ClassifyInOrder(d) ==
  LET seven == detectVendorSiphoning(d) \o detectCrossCampaignNetworks(d)
               \o detectRevolvingDoor(d) \o detectFamilyPayments(d)
               \o detectSanctionsFlags(d) \o detectHighVolumePassThrough(d)
               \o detectDarkMoneyClusters(d)
      all == detectInvestigationStories(d, seven, Len(d.investigations))
  IN SortStories(IF FallbackApplies(d, all) THEN Append(all, DataLoadedStory(d)) ELSE all)

(***************************************************************************)
(* Properties.                                                             *)
(***************************************************************************)
Returned == pc = "done"

StoryIdx == 1..Len(stories)

\* critical < high < medium < info
SeverityRank(sev) ==
  CASE sev = "critical" -> 1 [] sev = "high" -> 2 [] sev = "medium" -> 3 [] sev = "info" -> 4

\* the ids a story's entities list references
ReferencedIds(s) == {s.entities[k].id : k \in 1..Len(s.entities)}

\* C1: in the returned list every adjacent pair (a, b) has rank(a.severity) <=
\* rank(b.severity) under critical < high < medium < info, and a.totalMoney >=
\* b.totalMoney when the severities are equal.
C1_SortedOutput ==
  Returned =>
    \A i \in StoryIdx : i < Len(stories) =>
      LET a == stories[i]
          b == stories[i + 1]
      IN /\ SeverityRank(a.severity) <= SeverityRank(b.severity)
         /\ (a.severity = b.severity => a.totalMoney >= b.totalMoney)

\* a returned list with two severities, and two stories of one severity and different money
C1_Witness ==
  /\ Returned
  /\ \E i, j \in StoryIdx : stories[i].severity # stories[j].severity
  /\ \E i, j \in StoryIdx :
        i < j /\ stories[i].severity = stories[j].severity
        /\ stories[i].totalMoney > stories[j].totalMoney

\* C2: once the Investigation Findings detector has run, the list holds no
\* INVESTIGATION_FINDINGS story of an investigation whose entity id a story of
\* another pattern references.
C2_InvestigationSuppressed ==
  pc \in {"fallback", "sort", "done"} =>
    \A n \in 1..Len(data.investigations) :
      LET inv == data.investigations[n]
      IN (\E i \in StoryIdx : /\ stories[i].pattern # "INVESTIGATION_FINDINGS"
                              /\ inv.entity_id \in ReferencedIds(stories[i]))
         => ~ \E j \in StoryIdx : /\ stories[j].pattern = "INVESTIGATION_FINDINGS"
                                  /\ stories[j].id = "inv-" \o inv.id

\* an investigation with two findings whose entity a VENDOR_SIPHONING story names
C2_Witness ==
  /\ Returned
  /\ \E n \in 1..Len(data.investigations) :
        /\ Len(data.investigations[n].findings) >= 2
        /\ \E i \in StoryIdx : /\ stories[i].pattern = "VENDOR_SIPHONING"
                               /\ data.investigations[n].entity_id \in ReferencedIds(stories[i])

\* C3: no two stories of the returned list have the same id.
C3_UniqueIds ==
  Returned => \A i, j \in StoryIdx : i # j => stories[i].id # stories[j].id

\* C4: a second run over the unchanged snapshot returns the list the first run returned.
C4_Idempotent ==
  (Returned /\ run >= 2) => stories = prev

\* a second run that returned several stories
C4_Witness ==
  Returned /\ run = 2 /\ Len(stories) >= 2 /\ stories = prev

\* C5: every story has totalMoney >= 0.
C5_NonNegativeMoney ==
  \A i \in StoryIdx : stories[i].totalMoney >= 0

HasDataLoaded == \E i \in StoryIdx : stories[i].pattern = "DATA_LOADED"

NoDetectorStory == \A i \in StoryIdx : stories[i].pattern = "DATA_LOADED"

CoreDataEmpty ==
  Len(data.disbursements) = 0 /\ Len(data.entities) = 0 /\ Len(data.signals) = 0

\* C6: a DATA_LOADED story is returned exactly when no detector emitted a story and
\* one of disbursements, entities, signals is non-empty; it is then the only story,
\* with severity info, sourceCount 1 and networkSize 0.
C6_Fallback ==
  pc \in {"sort", "done"} =>
    /\ HasDataLoaded <=> (NoDetectorStory /\ ~CoreDataEmpty)
    /\ HasDataLoaded =>
         /\ Len(stories) = 1
         /\ stories[1].severity = "info"
         /\ stories[1].sourceCount = 1
         /\ stories[1].networkSize = 0

\* only entities are present, and the fallback story is returned
C6_Witness ==
  /\ Returned
  /\ HasDataLoaded
  /\ Len(data.entities) > 0 /\ Len(data.disbursements) = 0 /\ Len(data.signals) = 0

\* C7 as stated: with zero entities, disbursements and signals the returned list is empty.
C7_EmptyWithoutCoreData ==
  (Returned /\ CoreDataEmpty) => stories = <<>>

\* C7 amended: with zero entities, disbursements and signals no fallback story and no
\* story of a disbursement- or signal-based pattern is returned, and the list is empty
\* when screenings, investigations and relationships are empty too.
C7_EmptyWithoutAnyRecords ==
  (Returned /\ CoreDataEmpty) =>
    /\ \A i \in StoryIdx :
         stories[i].pattern \in
           {"SANCTIONS_FLAG", "REVOLVING_DOOR", "INVESTIGATION_FINDINGS", "DARK_MONEY_CLUSTER"}
    /\ (Len(data.screenings) = 0 /\ Len(data.investigations) = 0
        /\ Len(data.relationships) = 0) => stories = <<>>

\* a run over a snapshot without any of those records has returned
C7_Witness ==
  /\ Returned
  /\ CoreDataEmpty
  /\ Len(data.screenings) = 0 /\ Len(data.investigations) = 0 /\ Len(data.relationships) = 0
  /\ stories = <<>>

\* C8: in every story no two entries of the entities list share a non-empty id.
C8_DistinctEntityIds ==
  \A i \in StoryIdx :
    \A k, l \in 1..Len(stories[i].entities) :
      (k # l /\ stories[i].entities[k].id # "")
        => stories[i].entities[k].id # stories[i].entities[l].id

\* a cross-campaign story for a vendor group in which one entity was flagged twice
C8_Witness ==
  /\ Returned
  /\ \E i \in StoryIdx :
        /\ stories[i].pattern = "CROSS_CAMPAIGN_NETWORK"
        /\ Len(stories[i].entities) >= 2
        /\ \E m, n \in 1..Len(data.signals) :
              /\ m # n
              /\ data.signals[m].signal_type = "CROSS_CAMPAIGN"
              /\ data.signals[n].signal_type = "CROSS_CAMPAIGN"
              /\ data.signals[m].entity_id = data.signals[n].entity_id
              /\ DetailVendor(data.signals[m].details) = stories[i].headline[1]
              /\ DetailVendor(data.signals[n].details) = stories[i].headline[1]

\* The disbursements paid to the vendor whose upper-cased, trimmed name is v.
PaidTo(v) ==
  {i \in 1..Len(data.disbursements) :
     Trim(ToUpperCase(data.disbursements[i].recipient_name)) = v}

RECURSIVE SumOver(_)
\* the sum of the amounts (null as 0) of the disbursements with index in ix
SumOver(ix) ==
  IF ix = {} THEN 0
  ELSE LET i == CHOOSE i \in ix : TRUE
       IN NumOr0(data.disbursements[i].disbursement_amount) + SumOver(ix \ {i})

\* a disbursement with neither an entity id nor a committee id or name
Anonymous(i) ==
  LET d == data.disbursements[i]
  IN d.entity_id = "" /\ d.committee_id = "" /\ d.committee_name = ""

Identified(ix) == {i \in ix : ~Anonymous(i)}

KeysOf(m) == {m[k].key : k \in 1..Len(m)}

\* detectVendorSiphoning has built its vendorMap in this run
AfterVendorLoop == pc \notin {"idle", "vendor"}

\* C9 as stated: a disbursement with neither an entity id nor a committee id/name adds
\* nothing to a vendor's running total or committee count, nor to a story's totalMoney.
C9_AnonymousExcluded ==
  LET vm == vendorMap(data)
  IN /\ AfterVendorLoop => \A k \in 1..Len(vm) :
          /\ vm[k].total = SumOver(Identified(PaidTo(vm[k].key)))
          /\ Len(vm[k].committees) =
               Cardinality({CommitteeKey(data.disbursements[i]) :
                              i \in Identified(PaidTo(vm[k].key))})
     /\ \A i \in StoryIdx :
          /\ stories[i].pattern = "VENDOR_SIPHONING"
               => stories[i].totalMoney = SumOver(Identified(PaidTo(stories[i].headline[1])))
          /\ stories[i].pattern = "DATA_LOADED"
               => stories[i].totalMoney = SumOver(Identified(1..Len(data.disbursements)))

\* C9 amended: a disbursement without an entity id adds nothing to a vendor's
\* payer-entity map: the map's keys are the non-empty entity ids paying the vendor and
\* each entry's amount is the sum of that entity's payments, and an entity-level story's
\* networkSize is the number of those ids.  A disbursement without any payer identifier
\* is still aggregated: the vendor's total (and the story's totalMoney) is the sum of
\* all payments to the vendor, and the committee keys are those of all its payments,
\* "unknown" standing for a payment without committee id and name.
C9_NoEntityIdNoPayer ==
  LET vm == vendorMap(data)
  IN /\ AfterVendorLoop => \A k \in 1..Len(vm) :
          LET paid == PaidTo(vm[k].key)
              payers == {data.disbursements[i].entity_id : i \in paid} \ {""}
          IN /\ KeysOf(vm[k].entities) = payers
             /\ Len(vm[k].entities) = Cardinality(payers)
             /\ \A e \in 1..Len(vm[k].entities) :
                  vm[k].entities[e].amount =
                    SumOver({i \in paid : data.disbursements[i].entity_id = vm[k].entities[e].key})
             /\ vm[k].total = SumOver(paid)
             /\ KeysOf(vm[k].committees) = {CommitteeKey(data.disbursements[i]) : i \in paid}
             /\ (\E i \in paid : Anonymous(i)) => "unknown" \in KeysOf(vm[k].committees)
     /\ \A i \in StoryIdx :
          stories[i].pattern = "VENDOR_SIPHONING" =>
            LET paid == PaidTo(stories[i].headline[1])
            IN /\ stories[i].totalMoney = SumOver(paid)
               /\ stories[i].headline[2] = "politicians" =>
                    stories[i].networkSize =
                      Cardinality({data.disbursements[j].entity_id : j \in paid} \ {""})

\* a vendor story was returned for a vendor that an anonymous disbursement was paid to
C9_Witness ==
  /\ Returned
  /\ \E i \in StoryIdx :
        /\ stories[i].pattern = "VENDOR_SIPHONING"
        /\ \E j \in PaidTo(stories[i].headline[1]) : Anonymous(j)

\* the normalized vendor names of the snapshot and their paying entities
VendorNames ==
  {Trim(ToUpperCase(data.disbursements[i].recipient_name)) : i \in 1..Len(data.disbursements)}

PayingEntities(v) == {data.disbursements[i].entity_id : i \in PaidTo(v)} \ {""}

VendorStoriesOf(v) ==
  {i \in StoryIdx : stories[i].pattern = "VENDOR_SIPHONING" /\ stories[i].headline[1] = v}

OneStoryFor(v) ==
  /\ Cardinality(VendorStoriesOf(v)) = 1
  /\ \A i \in VendorStoriesOf(v) :
        /\ stories[i].networkSize = Cardinality(PayingEntities(v))
        /\ stories[i].totalMoney = SumOver(PaidTo(v))

Qualifies(v) ==
  Cardinality(PayingEntities(v)) >= 3 /\ SumOver(PaidTo(v)) >= 50000

\* C10 as stated: a vendor other than the stoplisted names, paid by n >= 3 distinct
\* entities a total of at least $50,000, gets exactly one VENDOR_SIPHONING story with
\* networkSize n and totalMoney the sum of all payments to the normalized name.
C10_QualifyingVendorStory ==
  Returned =>
    \A v \in VendorNames :
      (v \notin genericVendorNames /\ Qualifies(v)) => OneStoryFor(v)

\* C10 amended: the same for a vendor whose normalized name is neither stoplisted nor
\* shorter than 3 characters.
C10_QualifyingNamedVendorStory ==
  Returned =>
    \A v \in VendorNames :
      (v \notin genericVendorNames /\ Len(v) >= 3 /\ Qualifies(v)) => OneStoryFor(v)

\* three entities paid $20,000 each to one vendor under differently written names
C10_Witness ==
  /\ Returned
  /\ \E v \in VendorNames :
        /\ v \notin genericVendorNames /\ Len(v) >= 3 /\ Qualifies(v)
        /\ Cardinality(PayingEntities(v)) = 3
        /\ SumOver(PaidTo(v)) = 60000
        /\ Cardinality({data.disbursements[i].recipient_name : i \in PaidTo(v)}) = 3

\* a normalized vendor name the aggregation must drop: stoplisted, empty or under 3 characters
Suppressed(v) == Len(v) < 3 \/ v \in genericVendorNames

AllToSuppressed ==
  \A i \in 1..Len(data.disbursements) :
    Suppressed(Trim(ToUpperCase(data.disbursements[i].recipient_name)))

OnlyDisbursements ==
  /\ Len(data.disbursements) > 0
  /\ Len(data.signals) = 0 /\ Len(data.investigations) = 0 /\ Len(data.relationships) = 0
  /\ Len(data.screenings) = 0 /\ Len(data.entities) = 0

\* C11 as stated: a snapshot whose disbursements all go to stoplisted, empty or
\* under-3-character vendor names (and that holds nothing else) returns zero stories.
C11_SuppressedVendorNoStory ==
  (Returned /\ OnlyDisbursements /\ AllToSuppressed) => Len(stories) = 0

\* C11 amended: no VENDOR_SIPHONING story is ever emitted for a stoplisted, empty or
\* under-3-character normalized vendor name, whatever its payer count and total; a
\* snapshot that holds only disbursements to such names returns exactly one story, the
\* DATA_LOADED fallback.
C11_SuppressedVendorNoSiphonStory ==
  /\ \A i \in StoryIdx :
       stories[i].pattern = "VENDOR_SIPHONING" => ~Suppressed(stories[i].headline[1])
  /\ (Returned /\ OnlyDisbursements /\ AllToSuppressed) =>
       (Len(stories) = 1 /\ stories[1].pattern = "DATA_LOADED")

\* ten entities paid "UNKNOWN" $1,000,000 in total and the run has returned
C11_Witness ==
  /\ Returned
  /\ OnlyDisbursements
  /\ \A i \in 1..Len(data.disbursements) : data.disbursements[i].recipient_name = "UNKNOWN"
  /\ Cardinality({data.disbursements[i].entity_id : i \in 1..Len(data.disbursements)} \ {""}) = 10
  /\ SumOver(1..Len(data.disbursements)) = 1000000

\* the relationship rows of the snapshot, and the ids they mention
AllEdges == {data.relationships[i] : i \in 1..Len(data.relationships)}

Endpoints(E) == UNION {{r.source_entity_id, r.target_entity_id} : r \in E}

\* the ids one row of E away from x, in either direction
Linked(E, x) ==
  {r.target_entity_id : r \in {q \in E : q.source_entity_id = x}}
  \cup {r.source_entity_id : r \in {q \in E : q.target_entity_id = x}}

RECURSIVE Closure(_, _)
\* the ids reachable from S over rows of E
Closure(E, S) ==
  LET T == S \cup UNION {Linked(E, x) : x \in S}
  IN IF T = S THEN S ELSE Closure(E, T)

\* the connected components of the undirected graph of E
ComponentsOf(E) == {Closure(E, {x}) : x \in Endpoints(E)}

ClusterStories == {i \in StoryIdx : stories[i].pattern = "DARK_MONEY_CLUSTER"}

AfterClusters == pc \in {"investigation", "fallback", "sort", "done"}

\* C12: once detectDarkMoneyClusters has run, the member sets of the cluster stories
\* are exactly the connected components with 3 or more members of the undirected graph
\* of the snapshot's relationships, one story per component, each member listed once.
C12_ClustersAreComponents ==
  AfterClusters =>
    LET big == {c \in ComponentsOf(AllEdges) : Cardinality(c) >= 3}
    IN /\ {ReferencedIds(stories[i]) : i \in ClusterStories} = big
       /\ Cardinality(ClusterStories) = Cardinality(big)
       /\ \A i \in ClusterStories :
            /\ Len(stories[i].entities) = Cardinality(ReferencedIds(stories[i]))
            /\ stories[i].networkSize = Cardinality(ReferencedIds(stories[i]))

\* edges a-b and c-b (no a-c edge) gave the single cluster {a, b, c}, and an id outside
\* it (a component of size 1 or 2) is named by no cluster
C12_Witness ==
  /\ AfterClusters
  /\ Cardinality(ClusterStories) = 1
  /\ \A i \in ClusterStories : ReferencedIds(stories[i]) = {"a", "b", "c"}
  /\ \E r \in AllEdges : r.source_entity_id = "c" /\ r.target_entity_id = "b"
  /\ ~ \E r \in AllEdges : {r.source_entity_id, r.target_entity_id} = {"a", "c"}
  /\ Endpoints(AllEdges) # {"a", "b", "c"}

\* the bridge score kb_nodes gives an id: that of its last row with a positive score, 0
\* when there is none
BridgeScoreOf(id) ==
  LET hits == {n \in 1..Len(data.kbNodes) :
                 /\ data.kbNodes[n].entity_id = id
                 /\ NumOr0(data.kbNodes[n].bridge_score) > 0}
  IN IF hits = {} THEN 0
     ELSE NumOr0(data.kbNodes[CHOOSE n \in hits : \A m \in hits : m <= n].bridge_score)

\* the hub a cluster story's id cluster-<hub> names
HubIdOf(s) == SubSeq(s.id, Len("cluster-") + 1, Len(s.id))

\* C13: the hub named by a cluster story's id is a member whose bridge score (0 when
\* missing) is the greatest of the cluster; it is the first such member in traversal
\* order, which is the order of the story's entities; the story's maxBridge is its score.
C13_HubHasMaxBridge ==
  \A i \in ClusterStories :
    LET es == stories[i].entities
        hub == HubIdOf(stories[i])
    IN /\ \E k \in 1..Len(es) :
            /\ es[k].id = hub
            /\ \A l \in 1..Len(es) : BridgeScoreOf(es[l].id) <= BridgeScoreOf(hub)
            /\ \A l \in 1..(k - 1) : BridgeScoreOf(es[l].id) < BridgeScoreOf(hub)
       /\ stories[i].maxBridge = BridgeScoreOf(hub)

\* a cluster in which two members share the greatest score and the hub, the one visited
\* first of the two, was not the first member visited
C13_Witness ==
  /\ AfterClusters
  /\ \E i \in ClusterStories :
        LET es == stories[i].entities
            hub == HubIdOf(stories[i])
        IN /\ BridgeScoreOf(hub) > 0
           /\ es[1].id # hub
           /\ \E l \in 1..Len(es) :
                 es[l].id # hub /\ BridgeScoreOf(es[l].id) = BridgeScoreOf(hub)

\* C14: a detector's failure on an unexpected input shape is contained: no run of
\* classifyStories ends by an exception leaving it (it always goes on to the remaining
\* detectors and returns).
C14_DetectorErrorContained ==
  pc # "thrown"

\* the relationship rows whose "currently active" flag is true
ActiveEdges == {r \in AllEdges : r.is_current}

C16_InputNotMutated ==
  [][data' = data]_vars

\* a vendor story was pushed whose date is not that of the first payment to the vendor
\* in the snapshot: the date sort has reordered the vendor's payments
C16_Witness ==
  /\ AfterVendorLoop
  /\ \E i \in StoryIdx :
        /\ stories[i].pattern = "VENDOR_SIPHONING"
        /\ stories[i].date # ""
        /\ LET paid == PaidTo(stories[i].headline[1])
               first == CHOOSE j \in paid : \A m \in paid : j <= m
           IN /\ data.disbursements[first].disbursement_date # stories[i].date
              /\ \A j \in paid :
                    LocaleCompare(data.disbursements[j].disbursement_date,
                                  stories[i].date) <= 0

\* the stories of a list, as a set
StorySet(s) == {s[i] : i \in 1..Len(s)}

\* C17: in a run whose first seven detector calls are made in any order, the
\* Investigation Findings call is made only after all seven, and the run returns the
\* same set (and number) of stories as the run that makes the calls in the code's order.
C17_OrderIndependent ==
  /\ ("investigation" \notin pending /\ pc # "idle") => pending = {}
  /\ Returned =>
       /\ StorySet(stories) = StorySet(ClassifyInOrder(data))
       /\ Len(stories) = Len(ClassifyInOrder(data))

\* a run that made the calls in another order than the code has returned: its list holds
\* the stories of three detectors or more, two of them tied in severity and money and so
\* left by the sort in the order of their calls, which is not the code's
C17_Witness ==
  /\ Returned
  /\ Cardinality({stories[i].pattern : i \in StoryIdx}) >= 3
  /\ stories # ClassifyInOrder(data)

\* the cross-campaign signals that name neither a vendor nor a recipient
UnnamedCross ==
  {i \in 1..Len(data.signals) :
     /\ data.signals[i].signal_type = "CROSS_CAMPAIGN"
     /\ data.signals[i].details.vendor = ""
     /\ data.signals[i].details.recipient = ""}

RECURSIVE CrossSumOver(_)
\* the sum over the signals with index in ix of total_amount, else amount, else 0
CrossSumOver(ix) ==
  IF ix = {} THEN 0
  ELSE LET i == CHOOSE i \in ix : TRUE
           det == data.signals[i].details
           amt == IF det.total_amount # <<>> /\ det.total_amount[1] # 0 THEN det.total_amount[1]
                  ELSE IF det.amount # <<>> THEN det.amount[1] ELSE 0
       IN amt + CrossSumOver(ix \ {i})

\* C18: a record with a null amount or a missing vendor/recipient name does not abort
\* the run (a run ends in an exception only for the screening rows without list and
\* source); a null amount counts as 0 in the vendor total, a payment without recipient
\* name is left out while the others are counted, and signals without vendor and
\* recipient are grouped under "unknown", their null amounts counting as 0.
C18_MissingFieldsCoerced ==
  /\ pc = "thrown" => SanctionsThrows(data)
  /\ \A i \in StoryIdx :
       stories[i].pattern = "VENDOR_SIPHONING" =>
         /\ stories[i].headline[1] # ""
         /\ stories[i].totalMoney = SumOver(PaidTo(stories[i].headline[1]))
  /\ (pc \notin {"idle", "vendor", "cross"}
      /\ Cardinality({data.signals[i].entity_id : i \in UnnamedCross} \ {""}) >= 2) =>
       \E i \in StoryIdx :
         /\ stories[i].pattern = "CROSS_CAMPAIGN_NETWORK"
         /\ stories[i].headline[1] = "unknown"
         /\ stories[i].totalMoney = CrossSumOver(UnnamedCross)

\* a run over signals without vendor and recipient, one of them without amounts, has
\* returned the "unknown" network story and a story derived from another signal
C18_Witness ==
  /\ Returned
  /\ \E i \in UnnamedCross :
        data.signals[i].details.amount = <<>> /\ data.signals[i].details.total_amount = <<>>
  /\ \E i, j \in StoryIdx :
        /\ stories[i].pattern = "CROSS_CAMPAIGN_NETWORK"
        /\ stories[i].headline[1] = "unknown"
        /\ stories[i].totalMoney = 7000
        /\ stories[j].pattern # "CROSS_CAMPAIGN_NETWORK"

\* the committee keys of the payments to vendor v: committee id, else committee name,
\* trimmed, else "unknown"
PayingCommittees(v) ==
  {LET d == data.disbursements[i]
       raw == Trim(IF d.committee_id # "" THEN d.committee_id ELSE d.committee_name)
   IN IF raw # "" THEN raw ELSE "unknown" : i \in PaidTo(v)}

\* C19: for each vendor the aggregation keeps, detectVendorSiphoning pushes one
\* entity-level story iff its distinct paying entities are >= 3 and its total is
\* >= $50,000; otherwise one committee-level story iff its distinct committee keys are
\* >= 3 and its total is >= $20,000; otherwise no story.
C19_VendorDecisionRule ==
  AfterVendorLoop =>
    \A v \in VendorNames : ~Suppressed(v) =>
      LET found == VendorStoriesOf(v)
          total == SumOver(PaidTo(v))
          ents == Cardinality(PayingEntities(v))
          coms == Cardinality(PayingCommittees(v))
      IN IF ents >= 3 /\ total >= 50000
         THEN /\ Cardinality(found) = 1
              /\ \A i \in found : /\ stories[i].headline[2] = "politicians"
                                   /\ stories[i].networkSize = ents
         ELSE IF coms >= 3 /\ total >= 20000
         THEN /\ Cardinality(found) = 1
              /\ \A i \in found : /\ stories[i].headline[2] = "committees"
                                   /\ stories[i].networkSize = coms
         ELSE found = {}

\* a vendor with 3 entities, 3 committees and a total of $30,000 got one story, at
\* committee level
C19_Witness ==
  /\ Returned
  /\ \E v \in VendorNames :
        /\ Cardinality(PayingEntities(v)) >= 3
        /\ Cardinality(PayingCommittees(v)) >= 3
        /\ SumOver(PaidTo(v)) = 30000
        /\ Cardinality(VendorStoriesOf(v)) = 1
        /\ \A i \in VendorStoriesOf(v) : stories[i].headline[2] = "committees"

\* C20: a VENDOR_SIPHONING story is critical if its payer count (its networkSize) is
\* >= 5, otherwise high if the vendor total is >= $200,000, otherwise medium.
C20_VendorSeverity ==
  \A i \in StoryIdx :
    stories[i].pattern = "VENDOR_SIPHONING" =>
      stories[i].severity =
        IF stories[i].networkSize >= 5 THEN "critical"
        ELSE IF stories[i].totalMoney >= 200000 THEN "high" ELSE "medium"

\* the three severities at work: five committees and $500,000 is critical, not high
C20_Witness ==
  /\ Returned
  /\ \E i \in StoryIdx :
        /\ stories[i].pattern = "VENDOR_SIPHONING"
        /\ stories[i].headline[2] = "committees"
        /\ stories[i].networkSize = 5
        /\ stories[i].totalMoney = 500000
        /\ stories[i].severity = "critical"

\* the lexically greatest of the dates of the payments with index in ix ("" for a
\* missing date, which is below every date)
LatestDate(ix) ==
  LET dates == {data.disbursements[i].disbursement_date : i \in ix}
  IN CHOOSE x \in dates : \A y \in dates : LocaleCompare(y, x) <= 0

\* C21: the date of a VENDOR_SIPHONING story is the lexically greatest disbursement_date
\* of the payments aggregated for its vendor, in every order of the payments and also
\* when some of them have no date.
C21_DateIsMaximum ==
  \A i \in StoryIdx :
    stories[i].pattern = "VENDOR_SIPHONING" =>
      stories[i].date = LatestDate(PaidTo(stories[i].headline[1]))

\* the payments made by the entities in ids
PaidBy(ids) ==
  {i \in 1..Len(data.disbursements) : data.disbursements[i].entity_id \in ids \ {""}}

\* C22: a DARK_MONEY_CLUSTER story is high iff its cluster has 5 or more members and
\* the payments of its members sum to $200,000 or more, and medium otherwise (never info
\* or critical); its totalMoney is that sum and its networkSize the cluster size (>= 3).
C22_ClusterSeverity ==
  \A i \in ClusterStories :
    LET members == ReferencedIds(stories[i])
        size == Cardinality(members)
        clusterMoney == SumOver(PaidBy(members))
    IN /\ stories[i].totalMoney = clusterMoney
       /\ stories[i].networkSize = size
       /\ size >= 3
       /\ stories[i].severity = IF size >= 5 /\ clusterMoney >= 200000 THEN "high" ELSE "medium"

\* a cluster of 5 with exactly $200,000 is high, and the run has returned
C22_Witness ==
  /\ Returned
  /\ \E i \in ClusterStories :
        /\ stories[i].networkSize = 5
        /\ stories[i].totalMoney = 200000
        /\ stories[i].severity = "high"

\* the group key of a cross-campaign signal: vendor, else recipient, else "unknown"
CrossKey(i) ==
  LET det == data.signals[i].details
  IN IF det.vendor # "" THEN det.vendor
     ELSE IF det.recipient # "" THEN det.recipient ELSE "unknown"

\* the cross-campaign signals of the vendor group v
CrossGroup(v) ==
  {i \in 1..Len(data.signals) :
     data.signals[i].signal_type = "CROSS_CAMPAIGN" /\ CrossKey(i) = v}

CrossVendors ==
  {CrossKey(i) : i \in {j \in 1..Len(data.signals) :
                          data.signals[j].signal_type = "CROSS_CAMPAIGN"}}

CrossStoriesOf(v) ==
  {i \in StoryIdx : stories[i].pattern = "CROSS_CAMPAIGN_NETWORK" /\ stories[i].headline[1] = v}

RECURSIVE AmountFieldSumOver(_)
\* the sum over the signals with index in ix of the amount field, null counting as 0
AmountFieldSumOver(ix) ==
  IF ix = {} THEN 0
  ELSE LET i == CHOOSE i \in ix : TRUE
           det == data.signals[i].details
       IN (IF det.amount # <<>> THEN det.amount[1] ELSE 0) + AmountFieldSumOver(ix \ {i})

\* the rule of the cross-campaign detector, with the money of a group computed by Money
CrossRule(Money(_)) ==
  pc \notin {"idle", "vendor", "cross"} =>
    /\ \A i \in StoryIdx :
         stories[i].pattern = "CROSS_CAMPAIGN_NETWORK" => stories[i].headline[1] \in CrossVendors
    /\ \A v \in CrossVendors :
         LET ids == {data.signals[i].entity_id : i \in CrossGroup(v)} \ {""}
         IN /\ Cardinality(CrossStoriesOf(v)) = IF Cardinality(ids) >= 2 THEN 1 ELSE 0
            /\ \A i \in CrossStoriesOf(v) :
                 /\ stories[i].networkSize = Cardinality(ids)
                 /\ stories[i].severity = IF Cardinality(ids) >= 4 THEN "high" ELSE "medium"
                 /\ stories[i].totalMoney = Money(CrossGroup(v))

\* C23: a vendor group of CROSS_CAMPAIGN signals (vendor, else recipient, else "unknown")
\* yields exactly one story iff it references 2 or more distinct non-empty entity ids;
\* networkSize is that number, severity is high from 4 ids and medium below, and
\* totalMoney sums, per signal, total_amount when it is non-zero, else amount, else 0.
C23_CrossCampaignRule == CrossRule(CrossSumOver)

\* C23 as stated: totalMoney is the sum of the amount fields of the group's signals
C23_CrossCampaignAmountField == CrossRule(AmountFieldSumOver)

\* a returned network of 4 campaigns, high, whose signals carry both amount fields
C23_Witness ==
  /\ Returned
  /\ \E i \in StoryIdx :
        /\ stories[i].pattern = "CROSS_CAMPAIGN_NETWORK"
        /\ stories[i].networkSize = 4
        /\ stories[i].severity = "high"
        /\ \A j \in CrossGroup(stories[i].headline[1]) :
              /\ data.signals[j].details.amount # <<>>
              /\ data.signals[j].details.total_amount # <<>>
        /\ stories[i].totalMoney # AmountFieldSumOver(CrossGroup(stories[i].headline[1]))

\* the group key of a screening: its entity_name, "unknown" when it has none
ScreenedName(i) ==
  IF data.screenings[i].entity_name # "" THEN data.screenings[i].entity_name ELSE "unknown"

ScreenedGroup(n) == {i \in 1..Len(data.screenings) : ScreenedName(i) = n}

ScreenedNames == {ScreenedName(i) : i \in 1..Len(data.screenings)}

\* the list/source name of a screening: its list name, else its source (<<>> when it
\* has neither)
ListOrSource(i) ==
  LET r == data.screenings[i]
  IN IF r.list_name # <<>> /\ r.list_name[1] # "" THEN r.list_name ELSE r.source

SanctionsStoriesOf(n) ==
  {i \in StoryIdx : stories[i].pattern = "SANCTIONS_FLAG" /\ stories[i].headline[1] = n}

\* C24: once detectSanctionsFlags has returned there is exactly one SANCTIONS_FLAG story
\* per group of screenings with the same screened entity name; the story is critical iff
\* one of the group's list/source names contains "SDN", "OFAC" or "Sanctions" (in that
\* case) and high otherwise, its sourceCount is the number of distinct list/source names
\* of the group (a row with neither counts as one more), its networkSize 1, its
\* totalMoney 0.  The stories pushed before a run was aborted obey the same rule.
C24_SanctionsRule ==
  /\ \A i \in StoryIdx :
       stories[i].pattern = "SANCTIONS_FLAG" =>
         LET n == stories[i].headline[1]
             names == {ListOrSource(j) : j \in ScreenedGroup(n)}
         IN /\ n \in ScreenedNames
            /\ Cardinality(SanctionsStoriesOf(n)) = 1
            /\ stories[i].severity \in {"critical", "high"}
            /\ stories[i].severity = "critical" <=>
                 \E l \in names \ {<<>>} :
                    Includes(l[1], "SDN") \/ Includes(l[1], "OFAC") \/ Includes(l[1], "Sanctions")
            /\ stories[i].sourceCount = Cardinality(names)
            /\ stories[i].networkSize = 1
            /\ stories[i].totalMoney = 0
  /\ pc \in {"highvol", "cluster", "investigation", "fallback", "sort", "done"} =>
       \A n \in ScreenedNames : Cardinality(SanctionsStoriesOf(n)) = 1

\* a returned run with a critical story and a high one, the high one for a group with
\* two distinct names, one of them "ofac sdn"
C24_Witness ==
  /\ Returned
  /\ \E i, j \in StoryIdx :
        /\ stories[i].pattern = "SANCTIONS_FLAG"
        /\ stories[i].severity = "critical"
        /\ stories[j].pattern = "SANCTIONS_FLAG"
        /\ stories[j].severity = "high"
        /\ stories[j].sourceCount = 2
        /\ \E k \in ScreenedGroup(stories[j].headline[1]) :
              ListOrSource(k) = <<"ofac sdn">>

FindingsStories == {i \in StoryIdx : stories[i].pattern = "INVESTIGATION_FINDINGS"}

\* the investigations (by index) that the story at index i can have come from
InvestigationsOf(i) ==
  {j \in 1..Len(data.investigations) : stories[i].id = "inv-" \o data.investigations[j].id}

\* the payments whose entity_id is that of investigation j
PaidByInvestigated(j) ==
  {i \in 1..Len(data.disbursements) :
     data.disbursements[i].entity_id = data.investigations[j].entity_id}

\* C25: every INVESTIGATION_FINDINGS story comes from an investigation with 2 or more
\* findings; it is high from 6 findings, medium for 3 to 5, info for 2, and its
\* totalMoney is the sum of the disbursements whose entity_id is the investigation's.
C25_InvestigationRule ==
  \A i \in FindingsStories :
    \E j \in InvestigationsOf(i) :
      LET n == Len(data.investigations[j].findings)
      IN /\ n >= 2
         /\ stories[i].severity = IF n >= 6 THEN "high" ELSE IF n >= 3 THEN "medium" ELSE "info"
         /\ stories[i].totalMoney = SumOver(PaidByInvestigated(j))

\* a returned run with a high story of 6 findings and $14,000 and an info story of 2
C25_Witness ==
  /\ Returned
  /\ \E i, k \in FindingsStories :
        /\ stories[i].severity = "high"
        /\ stories[i].totalMoney = 14000
        /\ \E j \in InvestigationsOf(i) : Len(data.investigations[j].findings) = 6
        /\ stories[k].severity = "info"
        /\ Len(data.disbursements) = 3

\* investigation j has a lobbying finding that lists at least one lobbyist
YieldsRevolving(j) ==
  \E f \in 1..Len(data.investigations[j].findings) :
     LET finding == data.investigations[j].findings[f]
     IN /\ finding.source \in {"Senate LDA", "senate_lda", "LDA"}
        /\ finding.revolving_door_lobbyists # <<>>
        /\ Len(finding.revolving_door_lobbyists[1]) > 0

\* the stories of another pattern that reference the entity of investigation j
SpecificStoriesOn(j) ==
  {i \in StoryIdx : /\ stories[i].pattern # "INVESTIGATION_FINDINGS"
                    /\ data.investigations[j].entity_id \in ReferencedIds(stories[i])}

FindingsStoriesOf(j) ==
  {i \in FindingsStories : stories[i].id = "inv-" \o data.investigations[j].id}

\* C28: an investigation with a lobbying finding that lists a lobbyist has a
\* REVOLVING_DOOR story referencing its entity once detectRevolvingDoor has run, and
\* never an INVESTIGATION_FINDINGS story; an investigation with 2 or more findings
\* whose entity no story of another pattern references has its INVESTIGATION_FINDINGS
\* story once detectInvestigationStories has run, whatever INVESTIGATION_FINDINGS
\* stories reference the same entity.
C28_RevolvingSuppresses ==
  \A j \in 1..Len(data.investigations) :
    /\ (YieldsRevolving(j) /\ pc \notin {"idle", "vendor", "cross", "revolving"}) =>
         /\ \E i \in SpecificStoriesOn(j) : stories[i].pattern = "REVOLVING_DOOR"
         /\ FindingsStoriesOf(j) = {}
    /\ (/\ pc \in {"fallback", "sort", "done"}
        /\ Len(data.investigations[j].findings) >= 2
        /\ SpecificStoriesOn(j) = {}) =>
         FindingsStoriesOf(j) # {}

\* two investigations of one entity have both returned their story
C28_Witness ==
  /\ Returned
  /\ \E j, k \in 1..Len(data.investigations) :
        /\ j # k
        /\ data.investigations[j].entity_id = data.investigations[k].entity_id
        /\ data.investigations[j].id # data.investigations[k].id
        /\ FindingsStoriesOf(j) # {}
        /\ FindingsStoriesOf(k) # {}

\* an investigation with 3 findings, one of them listing a lobbyist, has returned its
\* REVOLVING_DOOR story and no INVESTIGATION_FINDINGS story
C28_WitnessSuppressed ==
  /\ Returned
  /\ \E j \in 1..Len(data.investigations) :
        /\ YieldsRevolving(j)
        /\ Len(data.investigations[j].findings) >= 3
        /\ FindingsStoriesOf(j) = {}

\* the position of a pattern's detector in the order of the calls; the fallback is last
PatternRank(p) ==
  CASE p = "VENDOR_SIPHONING" -> 1
    [] p = "CROSS_CAMPAIGN_NETWORK" -> 2
    [] p = "REVOLVING_DOOR" -> 3
    [] p = "FAMILY_PAYMENTS" -> 4
    [] p = "SANCTIONS_FLAG" -> 5
    [] p = "HIGH_VOLUME_PASS_THROUGH" -> 6
    [] p = "DARK_MONEY_CLUSTER" -> 7
    [] p = "INVESTIGATION_FINDINGS" -> 8
    [] p = "DATA_LOADED" -> 9

\* the stories of s that have the severity and the money of x, in their order in s
TiedWith(s, x) ==
  Filter(s, {i \in 1..Len(s) : s[i].severity = x.severity /\ s[i].totalMoney = x.totalMoney})

\* C26: the list handed to the sort holds the stories in detector order (Vendor
\* Siphoning first, Investigation Findings last, then the fallback), and the sort keeps
\* the stories of equal severity and equal totalMoney in the order they have in it.
C26_StableSort ==
  [][(pc = "sort" /\ pc' = "done") =>
       /\ \A i, j \in StoryIdx :
            i < j => PatternRank(stories[i].pattern) <= PatternRank(stories[j].pattern)
       /\ \A i \in StoryIdx : TiedWith(stories', stories[i]) = TiedWith(stories, stories[i])]_vars

\* two tied stories of different detectors were returned in detector order, behind a
\* story that the sort moved in front of the first of them
C26_Witness ==
  /\ Returned
  /\ \E k, i, j \in StoryIdx :
        /\ k < i /\ i < j
        /\ stories[i].severity = stories[j].severity
        /\ stories[i].totalMoney = stories[j].totalMoney
        /\ PatternRank(stories[i].pattern) < PatternRank(stories[j].pattern)
        /\ PatternRank(stories[k].pattern) > PatternRank(stories[i].pattern)

\* the number of occurrences of x in s
Occurrences(s, x) == Cardinality({i \in 1..Len(s) : s[i] = x})

\* C29: the sort returns a permutation of the list it is handed: the same length and
\* every story as many times as before.
C29_SortIsPermutation ==
  [][(pc = "sort" /\ pc' = "done") =>
       /\ Len(stories') = Len(stories)
       /\ \A i \in StoryIdx : Occurrences(stories', stories[i]) = Occurrences(stories, stories[i])]_vars

\* four stories or more were returned, two of them tied, and not in detector order
C29_Witness ==
  /\ Returned
  /\ Len(stories) >= 4
  /\ \E i, j \in StoryIdx :
        i # j /\ StoryCompare(stories[i], stories[j]) = 0 /\ stories[i] # stories[j]
  /\ \E i, j \in StoryIdx :
        i < j /\ PatternRank(stories[i].pattern) > PatternRank(stories[j].pattern)

\* C27: two DARK_MONEY_CLUSTER stories of one run share no entity id, and so have
\* different hubs and different ids; no story lists an entity id twice.
C27_ClustersDisjoint ==
  /\ \A i \in ClusterStories :
       \A k, l \in 1..Len(stories[i].entities) :
          k # l => stories[i].entities[k].id # stories[i].entities[l].id
  /\ \A i, j \in ClusterStories :
       i # j =>
         /\ ReferencedIds(stories[i]) \cap ReferencedIds(stories[j]) = {}
         /\ HubIdOf(stories[i]) # HubIdOf(stories[j])
         /\ stories[i].id # stories[j].id

\* a run over two triangles has returned two cluster stories of three members each
C27_Witness ==
  /\ Returned
  /\ \E i, j \in ClusterStories :
        /\ i # j
        /\ stories[i].networkSize = 3
        /\ stories[j].networkSize = 3
        /\ Len(data.relationships) >= 6

\* the ids added to a cluster so far: those of the clusters kept and of the current one
AddedIds ==
  Flatten(trav.clusters) \o (IF pc = "while" THEN trav.cluster ELSE <<>>)

AddedAtMostOnce ==
  \A i, j \in 1..Len(AddedIds) : i # j => AddedIds[i] # AddedIds[j]

Traversed == pc = "traversed"

\* C30: the component search adds no entity id to a cluster twice, ends for every
\* relationship list (cycles, self-loops and repeated edges included), and ends with the
\* clusters the detector builds its stories from.
C30_TraversalTerminates ==
  /\ [](AddedAtMostOnce /\ (pc = "while" => \A i \in 1..Len(trav.cluster) : trav.cluster[i] \in trav.visited))
  /\ [](Traversed => trav.clusters = (IF Len(data.relationships) < 2 THEN <<>>
                                       ELSE FindClusters(AdjOf(data), 1, {}, <<>>)))
  /\ <>Traversed

\* an id is on the work list twice while the traversal of a graph with a self-loop has
\* already added two ids to the cluster
C30_Witness ==
  /\ pc = "while"
  /\ Len(trav.cluster) >= 2
  /\ \E i, j \in 1..Len(trav.queue) : i # j /\ trav.queue[i] = trav.queue[j]
  /\ \E r \in 1..Len(data.relationships) :
        data.relationships[r].source_entity_id = data.relationships[r].target_entity_id

====
